---- MODULE Spec2Model ----
(***************************************************************************)
(* Pose trainer front end: the squat session component with its streaming  *)
(* transport (WebcamPose.tsx), the squat session component that reports to *)
(* the host (the WebcamPose variant in ExercisePageLayout.tsx), the press  *)
(* session component (PressPose.tsx) and the host bridge                   *)
(* (services/flutterBridge.ts and its second version, unnamed/part_001).   *)
(*                                                                         *)
(* Units: landmark coordinates are in thousandths of the frame (0.05 is    *)
(* 50), angles are whole degrees, times are milliseconds.  The average of  *)
(* two angles, (l + r) / 2, is kept doubled (l + r) and compared against   *)
(* doubled thresholds, so that no half degree is lost.                     *)
(***************************************************************************)
EXTENDS Integers, Sequences, FiniteSets, TLC

VARIABLES
  \* ---- WebcamPose.tsx: session and rep counter
  mounted,              \* the component is mounted (effects not yet cleaned up)
  exercise,             \* the exercise prop, mirrored by prevExerciseRef
  targetReps,           \* targetRepsRef.current, 0 for null
  repCount,             \* repCountRef.current
  repStage,             \* repStageRef.current, "neutral" for null
  kneeAngleHistory,     \* kneeAngleHistoryRef.current (doubled angles); on the
                        \* press page, angleHistoryRef.current
  poseStatus,           \* poseStatus state
  prediction,           \* prediction state: [exercise, confidence]
  latencyMs,            \* latencyMs state, NoValue for null
  \* ---- WebcamPose.tsx: send gating
  sinceSend,            \* performance.now() - lastSendRef.current, saturated
  lastSentKeypoints,    \* lastSentKeypointsRef.current, << >> for null
  seenRestFallback,     \* useRestFallback as captured by the onResults closure
  seenSocketOpen,       \* isSocketOpen as captured by the onResults closure
  \* ---- WebcamPose.tsx: transport
  useRestFallback,      \* useRestFallback state
  isSocketOpen,         \* isSocketOpen state
  socketRef,            \* socketRef.current: a socket id, 0 for null
  sockets,              \* every WebSocket created so far: id -> [st, run, reset]
  nextSock,             \* number of WebSockets created so far
  wsFailureCount,       \* wsFailureCountRef.current
  reconnectTimeout,     \* reconnectTimeoutRef.current: [on, run, delay]
  timersPending,        \* setTimeout calls neither fired nor cleared
  reconnectDelayMs,     \* reconnectDelayMs of each run of the socket effect
  restInFlight,         \* restInFlightRef.current
  restPending,          \* fetch calls whose promise has not settled
  \* ---- observation of the transport (history variables)
  sinceTx,              \* time since the last transmitted sample, saturated
  txLog,                \* the last transmission: [n, gap, delta, via, session]
  failedConns,          \* close events since the last open or manual reset
  reconnects,           \* reconnect timers fired since the last open
  frameLog,             \* when on, the frames pose.onResults has handled
  config,               \* [variant, env, base]: the component file, the base URL
                        \* of the environment and the one the component took
  angleCalc,            \* [a, b, c, done, angle]: a call of calculateAngle
  \* ---- which session component the page mounts
  page,                 \* "squat" (WebcamPose.tsx), "coach" (the WebcamPose of
                        \* ExercisePageLayout.tsx) or "press" (PressPose.tsx)
  \* ---- completion reporting (ExercisePageLayout.tsx, PressPose.tsx)
  showCompletion,       \* showCompletion state
  completionSent,       \* completionSentRef.current
  pendingCompletions,   \* sendCompletion calls awaiting the import of the bridge
  webviewExit,          \* webviewExitRef.current
  \* ---- services/flutterBridge.ts
  bridge,               \* the version of the module the page loads
  flutterHandler,       \* window.flutter_inappwebview has a callHandler function
  flutterReady,         \* flutterReady
  sentOnce,             \* sentOnce
  calls,                \* sendExerciseCompletedToFlutter calls awaiting the host
  hostLog,              \* callHandler invocations of the session, in order
  bridgeIssued,         \* the statuses sendExerciseCompletedToFlutter was called with
  bridgeReturn          \* how its last settled call ended: "none", "null", "ack"

wvars == << mounted, exercise, targetReps, repCount, repStage, kneeAngleHistory,
            poseStatus, prediction, latencyMs >>
gvars == << sinceSend, lastSentKeypoints, seenRestFallback, seenSocketOpen >>
tvars == << useRestFallback, isSocketOpen, socketRef, sockets, nextSock,
            wsFailureCount, reconnectTimeout, timersPending, reconnectDelayMs,
            restInFlight,
            restPending >>
tvars_socket == << useRestFallback, isSocketOpen, socketRef, sockets, nextSock,
                  wsFailureCount, reconnectTimeout, timersPending,
                  reconnectDelayMs >>
hvars == << sinceTx, txLog, failedConns, reconnects >>
cvars == << showCompletion, completionSent, pendingCompletions, webviewExit >>
bvars == << page, bridge, flutterHandler, flutterReady, sentOnce, calls, hostLog,
           bridgeIssued, bridgeReturn >>
vars == << wvars, gvars, tvars, hvars, cvars, bvars, frameLog, config, angleCalc >>

\* ------------------------------------------------------------------ bounds
MaxSockets == 5        \* WebSockets created in one run of the model
MaxReps == 3           \* rep counts explored
TickMs == 50           \* granularity of the clock
MaxLog == 4            \* frames of a logged scenario

\* ------------------------------------------------------- program constants
sendIntervalMs == 100
motionThreshold == 3
STABILITY_FRAME_COUNT == 5
STABILITY_THRESHOLD == 6
downThreshold == 100
upThreshold == 160
WsFailureLimit == 3
ReconnectFloorMs == 1000
ReconnectCeilingMs == 10000
LandmarkCount == 33

REQUIRED_LANDMARK_INDICES == << 11, 12, 13, 14, 15, 16, 23, 24, 25, 26, 27, 28 >>
VISIBILITY_LANDMARK_INDICES == << 11, 12, 23, 24, 25, 26, 27, 28 >>

\* an optional value: << >> when absent (null, undefined, or a wire value that
\* fails the typeof / Number.isFinite test), << v >> when present
NoValue == << >>
Some(v) == << v >>
Val(o) == o[1]
Abs(n) == IF n < 0 THEN -n ELSE n
Min(a, b) == IF a < b THEN a ELSE b
Range(s) == { s[i] : i \in DOMAIN s }

\* ------------------------------------------------------------------ frames
(***************************************************************************)
(* One result of the landmark detector.  len is the length of              *)
(* results.poseLandmarks (0: no detection); finite tells whether every     *)
(* coordinate is a finite number; pts gives x and y of the landmarks the   *)
(* component reads; leftAngle and rightAngle are the knee angles, in       *)
(* degrees, that calculateAngle returns for the frame.                     *)
(***************************************************************************)
Pt(x, y) == [x |-> x, y |-> y]

SquatPts(x27, shL, shR, hip, y15) ==
  [ i \in Range(REQUIRED_LANDMARK_INDICES) |->
      CASE i = 11 -> Pt(400, shL)
        [] i = 12 -> Pt(600, shR)
        [] i = 13 -> Pt(380, 400)
        [] i = 14 -> Pt(620, 400)
        [] i = 15 -> Pt(380, y15)
        [] i = 16 -> Pt(620, 500)
        [] i = 23 -> Pt(420, hip)
        [] i = 24 -> Pt(580, hip)
        [] i = 25 -> Pt(420, 750)
        [] i = 26 -> Pt(580, 750)
        [] i = 27 -> Pt(x27, 900)
        [] OTHER  -> Pt(580, 900) ]

SquatFrame(len, finite, x27, shL, shR, hip, y15, l, r) ==
  [ len |-> len, finite |-> finite, pts |-> SquatPts(x27, shL, shR, hip, y15),
    leftAngle |-> l, rightAngle |-> r ]

NoDetection == SquatFrame(0, TRUE, 500, 300, 300, 600, 500, 130, 130)

\* landmarks[idx] is an object
HasLandmark(f, idx) == idx < f.len

\* ------------------------------------------------------ WebcamPose helpers
formatLandmarks(f) ==
  IF f.len = 0 \/ f.len # LandmarkCount THEN FALSE ELSE f.finite

\* REQUIRED_LANDMARK_INDICES.map((idx) => formattedLandmarks[idx])
filteredLandmarks(f) ==
  [ i \in DOMAIN REQUIRED_LANDMARK_INDICES |-> f.pts[REQUIRED_LANDMARK_INDICES[i]] ]

isValidLandmarks(f) ==
  /\ formatLandmarks(f)
  /\ Len(filteredLandmarks(f)) = Len(REQUIRED_LANDMARK_INDICES)
  /\ \A i \in DOMAIN filteredLandmarks(f) :
        filteredLandmarks(f)[i].x > 0 /\ filteredLandmarks(f)[i].y > 0

isPoseFullyVisible(f) ==
  /\ f.len # 0
  /\ \A i \in DOMAIN VISIBILITY_LANDMARK_INDICES :
       LET idx == VISIBILITY_LANDMARK_INDICES[i] IN
         /\ HasLandmark(f, idx)
         /\ ~ ( f.pts[idx].x < 50 \/ f.pts[idx].x > 950
                \/ f.pts[idx].y < 50 \/ f.pts[idx].y > 950 )

isPostureValid(f) ==
  /\ f.len # 0
  /\ HasLandmark(f, 11) /\ HasLandmark(f, 12) /\ HasLandmark(f, 23) /\ HasLandmark(f, 24)
  /\ LET shoulderY2 == f.pts[11].y + f.pts[12].y
         hipY2 == f.pts[23].y + f.pts[24].y
     IN /\ ~ (hipY2 - shoulderY2 < 2 * 200)
        /\ ~ (shoulderY2 >= hipY2)
        /\ ~ (Abs(f.pts[11].y - f.pts[12].y) >= 80)

RECURSIVE MaxDeltaY(_, _, _)
MaxDeltaY(current, lastSent, i) ==
  IF i > Len(current) THEN 0
  ELSE LET delta == Abs(current[i].y - lastSent[i].y)
           rest == MaxDeltaY(current, lastSent, i + 1)
       IN IF delta > rest THEN delta ELSE rest

\* a faulty motion test that accepts any sample once a baseline exists
AnyMotion(current, lastSent) == lastSent # << >>

hasSufficientMotion(current, lastSent) ==
  IF lastSent = << >> THEN FALSE
  ELSE MaxDeltaY(current, lastSent, 1) >= motionThreshold

RECURSIVE MaxAdjacentDelta(_, _)
MaxAdjacentDelta(h, i) ==
  IF i > Len(h) THEN 0
  ELSE LET delta == Abs(h[i] - h[i - 1])
           rest == MaxAdjacentDelta(h, i + 1)
       IN IF delta > rest THEN delta ELSE rest

\* a faulty stability test that accepts a difference of exactly the threshold
isPoseStableInclusive(angleHistory) ==
  IF Len(angleHistory) < 2 THEN FALSE
  ELSE MaxAdjacentDelta(angleHistory, 2) <= 2 * STABILITY_THRESHOLD

\* the history holds doubled angles, so the threshold is doubled too
isPoseStable(angleHistory) ==
  IF Len(angleHistory) < 2 THEN FALSE
  ELSE MaxAdjacentDelta(angleHistory, 2) < 2 * STABILITY_THRESHOLD

\* history.push(angle); if (history.length > capacity) history.shift()
PushHistory(h, a, capacity) ==
  LET h1 == Append(h, a) IN IF Len(h1) > capacity THEN Tail(h1) ELSE h1

\* -------------------------------------------------------- calculateAngle
(***************************************************************************)
(* IEEE doubles, as far as calculateAngle needs them.  A number is         *)
(* m * 10^(200 * e) with a small integer m: e = 0 is the range of          *)
(* normalized landmarks, e = 1 a huge and e = -1 a tiny magnitude.  A      *)
(* product with e >= 2 (1e400) overflows to Infinity and one with e <= -2  *)
(* (1e-400) underflows to 0; a sum of two different scales is the term of  *)
(* the larger scale.                                                       *)
(***************************************************************************)
Num(m, e) == [k |-> "num", m |-> m, e |-> IF m = 0 THEN 0 ELSE e]
Inf(sign) == [k |-> "inf", m |-> sign, e |-> 0]
NaN == [k |-> "nan", m |-> 0, e |-> 0]
Sign(m) == IF m < 0 THEN -1 ELSE IF m > 0 THEN 1 ELSE 0

Rounded(m, e) ==
  IF m = 0 \/ e <= -2 THEN Num(0, 0) ELSE IF e >= 2 THEN Inf(Sign(m)) ELSE Num(m, e)

FNeg(x) == [x EXCEPT !.m = - x.m]

FAdd(x, y) ==
  IF x.k = "nan" \/ y.k = "nan" THEN NaN
  ELSE IF x.k = "inf" /\ y.k = "inf" THEN (IF x.m = y.m THEN x ELSE NaN)
  ELSE IF x.k = "inf" THEN x
  ELSE IF y.k = "inf" THEN y
  ELSE IF x.m = 0 THEN y
  ELSE IF y.m = 0 THEN x
  ELSE IF x.e = y.e THEN Rounded(x.m + y.m, x.e)
  ELSE IF x.e > y.e THEN x ELSE y

FSub(x, y) == FAdd(x, FNeg(y))

FMul(x, y) ==
  IF x.k = "nan" \/ y.k = "nan" THEN NaN
  ELSE IF x.k = "inf" \/ y.k = "inf"
       THEN (IF x.m = 0 \/ y.m = 0 THEN NaN ELSE Inf(Sign(x.m) * Sign(y.m)))
  ELSE Rounded(x.m * y.m, x.e + y.e)

\* Math.hypot(x, y) of two finite numbers: the square root of sq, at scale
\* e; Math.hypot does not overflow on the way
Hypot(x, y) ==
  IF x.k # "num" \/ y.k # "num" THEN [k |-> "inf", sq |-> 1, e |-> 0]
  ELSE IF x.m # 0 /\ y.m # 0 /\ x.e # y.e
       THEN (IF x.e > y.e THEN [k |-> "num", sq |-> x.m * x.m, e |-> x.e]
                           ELSE [k |-> "num", sq |-> y.m * y.m, e |-> y.e])
  ELSE [k |-> "num", sq |-> x.m * x.m + y.m * y.m,
        e |-> IF x.m # 0 THEN x.e ELSE y.e]

\* magAB * magCB
MagProduct(p, q) ==
  IF p.k = "inf" \/ q.k = "inf"
  THEN (IF p.sq = 0 \/ q.sq = 0 THEN [k |-> "nan", sq |-> 0, e |-> 0]
                                 ELSE [k |-> "inf", sq |-> 1, e |-> 0])
  ELSE IF p.sq = 0 \/ q.sq = 0 \/ p.e + q.e <= -2 THEN [k |-> "num", sq |-> 0, e |-> 0]
  ELSE IF p.e + q.e >= 2 THEN [k |-> "inf", sq |-> 1, e |-> 0]
  ELSE [k |-> "num", sq |-> p.sq * q.sq, e |-> p.e + q.e]

\* an angle in degrees known to lie in lo..hi, or NaN
Degrees(lo, hi) == [k |-> "deg", lo |-> lo, hi |-> hi]
NotANumber == [k |-> "nan", lo |-> 0, hi |-> 0]

\* Math.acos of the clamped quotient m / sqrt(sq), times 180 / PI: exact at
\* the angles whose squared cosine is 0, 1/4, 1/2, 3/4 or 1, bracketed
\* between them otherwise
AcosDegrees(m, sq) ==
  LET acute ==
        IF m * m >= sq THEN Degrees(0, 0)
        ELSE IF 4 * m * m > 3 * sq THEN Degrees(0, 30)
        ELSE IF 4 * m * m = 3 * sq THEN Degrees(30, 30)
        ELSE IF 2 * m * m > sq THEN Degrees(30, 45)
        ELSE IF 2 * m * m = sq THEN Degrees(45, 45)
        ELSE IF 4 * m * m > sq THEN Degrees(45, 60)
        ELSE IF 4 * m * m = sq THEN Degrees(60, 60)
        ELSE IF m # 0 THEN Degrees(60, 90)
        ELSE Degrees(90, 90)
  IN IF m >= 0 THEN acute ELSE Degrees(180 - acute.hi, 180 - acute.lo)

\* WebcamPose.tsx 203-204: the quotient dot / (magAB * magCB), clamped to
\* [-1, 1] (Math.max and Math.min return NaN for NaN), and its arc cosine
QuotientAngle(dot, prod) ==
  IF dot.k = "nan" \/ prod.k = "nan" THEN NotANumber
  ELSE IF prod.k = "inf" THEN (IF dot.k = "inf" THEN NotANumber ELSE Degrees(90, 90))
  ELSE IF prod.sq = 0
       THEN (IF dot.k = "num" /\ dot.m = 0 THEN NotANumber
             ELSE IF dot.m > 0 THEN Degrees(0, 0) ELSE Degrees(180, 180))
  ELSE IF dot.k = "inf" THEN (IF dot.m > 0 THEN Degrees(0, 0) ELSE Degrees(180, 180))
  ELSE IF dot.m = 0 \/ dot.e < prod.e THEN Degrees(90, 90)
  ELSE AcosDegrees(dot.m, prod.sq)

\* WebcamPose.tsx 194-205, PressPose.tsx 45-56
calculateAngle(a, b, c) ==
  LET abx == FSub(a.x, b.x)
      aby == FSub(a.y, b.y)
      cbx == FSub(c.x, b.x)
      cby == FSub(c.y, b.y)
      dot == FAdd(FMul(abx, cbx), FMul(aby, cby))
      magAB == Hypot(abx, aby)
      magCB == Hypot(cbx, cby)
  IN IF magAB.sq = 0 \/ magCB.sq = 0 THEN Degrees(180, 180)
     ELSE QuotientAngle(dot, MagProduct(magAB, magCB))

Origin == [x |-> Num(0, 0), y |-> Num(0, 0)]
NoCalc == [a |-> Origin, b |-> Origin, c |-> Origin, done |-> TRUE,
           angle |-> Degrees(180, 180)]

\* -------------------------------------------------------- the rep counter
\* a faulty target test that never stops the counter
CountsPastTarget(target, count) == TRUE

\* WebcamPose.tsx 339-341: canCountReps = !reachedTarget
canCountReps(target, count) == ~ (target # 0 /\ target > 0 /\ count >= target)

\* a faulty upright test that does not look at the stage
isUprightAnyStage(stage, kneeAngle2) == kneeAngle2 > 2 * upThreshold

\* WebcamPose.tsx 366
isUpright(stage, kneeAngle2) == stage = "neutral" /\ kneeAngle2 > 2 * upThreshold

\* a faulty descent test that asks for a knee angle below 95 degrees
StageAfterDeepDown(stage, kneeAngle2) ==
  IF kneeAngle2 < 2 * 95 THEN "down" ELSE stage

\* a faulty descent test that takes a standing user for a descent
StageAfterStanding(stage, kneeAngle2) ==
  IF kneeAngle2 < 2 * downThreshold \/ kneeAngle2 > 2 * upThreshold
  THEN "down" ELSE stage

\* WebcamPose.tsx 382-384
StageAfterDown(stage, kneeAngle2) ==
  IF kneeAngle2 < 2 * downThreshold THEN "down" ELSE stage

\* a faulty count condition that does not ask for the down stage
CountsRepAnyStage(stage, kneeAngle2) == kneeAngle2 > 2 * upThreshold

\* WebcamPose.tsx 385: the condition under which the frame counts a rep
CountsRep(stage, kneeAngle2) == kneeAngle2 > 2 * upThreshold /\ stage = "down"

\* WebcamPose.tsx 380-390: the ready branch
ReadyStep(count, stage, hist, kneeAngle2) ==
  LET stage1 == StageAfterDown(stage, kneeAngle2) IN
    IF CountsRep(stage1, kneeAngle2)
    THEN [count |-> count + 1, stage |-> "up", hist |-> hist, status |-> "ready"]
    ELSE [count |-> count, stage |-> stage1, hist |-> hist, status |-> "ready"]

\* a faulty gate: a frame that is not ready still counts
GatedCounting(count, hist, status) ==
  [count |-> count + 1, stage |-> "up", hist |-> hist, status |-> status]

\* WebcamPose.tsx 349-352, 367-370, 377-379: a frame the gate holds back
Gated(count, hist, status) ==
  [count |-> count, stage |-> "neutral", hist |-> hist, status |-> status]

\* WebcamPose.tsx 339-395: the counting part of pose.onResults
CountStep(f, target, count, stage, hist) ==
  LET stage0 == IF canCountReps(target, count) THEN stage ELSE "neutral"
      idle == [count |-> count, stage |-> stage0, hist |-> hist,
               status |-> "not_visible"]
  IN
  IF f.len # 0 /\ canCountReps(target, count) THEN
    IF ~ isPoseFullyVisible(f) THEN Gated(count, << >>, "not_visible")
    ELSE IF \A idx \in {23, 24, 25, 26, 27, 28} : HasLandmark(f, idx) THEN
      LET kneeAngle2 == f.leftAngle + f.rightAngle IN
      IF isUpright(stage0, kneeAngle2) /\ ~ isPostureValid(f)
      THEN Gated(count, << >>, "invalid_posture")
      ELSE
        LET history == PushHistory(hist, kneeAngle2, STABILITY_FRAME_COUNT) IN
        IF isUpright(stage0, kneeAngle2) /\ ~ isPoseStable(history)
        THEN Gated(count, history, "unstable")
        ELSE ReadyStep(count, stage0, history, kneeAngle2)
    ELSE idle
  ELSE idle

\* ------------------------------------------------------ the press counter
\* PressPose.tsx 96-103
STABILITY_FRAMES == 2
STABILITY_DELTA == 20
bottomElbowMax == 125
bottomElbowMin == 60
topElbowMin == 165
minOverheadLift == 140
shoulderBand == 140
horizontalAlignTolerance == 350
PRESS_VISIBILITY_INDICES == << 11, 12, 13, 14, 15, 16, 23, 24 >>

(***************************************************************************)
(* A frame of the press page: the right shoulder at height shR, both       *)
(* wrists at height wristY, the left wrist at abscissa wristX, and the     *)
(* elbow angles l and r that calculateAngle returns.                       *)
(***************************************************************************)
PressPts(shR, wristX, wristY) ==
  [ i \in Range(PRESS_VISIBILITY_INDICES) |->
      CASE i = 11 -> Pt(400, 300)
        [] i = 12 -> Pt(600, shR)
        [] i = 13 -> Pt(380, 350)
        [] i = 14 -> Pt(620, 350)
        [] i = 15 -> Pt(wristX, wristY)
        [] i = 16 -> Pt(620, wristY)
        [] i = 23 -> Pt(420, 600)
        [] OTHER  -> Pt(580, 600) ]

PressFrameOf(len, shR, wristX, wristY, l, r) ==
  [ len |-> len, pts |-> PressPts(shR, wristX, wristY),
    leftAngle |-> l, rightAngle |-> r ]

\* PressPose.tsx 57-61
isMostlyVisible(f) ==
  /\ f.len # 0
  /\ \A i \in DOMAIN PRESS_VISIBILITY_INDICES :
       HasLandmark(f, PRESS_VISIBILITY_INDICES[i])

\* PressPose.tsx 63-75
isTorsoUpright(f) ==
  /\ f.len # 0
  /\ HasLandmark(f, 11) /\ HasLandmark(f, 12) /\ HasLandmark(f, 23) /\ HasLandmark(f, 24)
  /\ ~ (f.pts[11].y + f.pts[12].y >= f.pts[23].y + f.pts[24].y)
  /\ ~ (Abs(f.pts[11].y - f.pts[12].y) > 80)
  /\ ~ (Abs(f.pts[23].y - f.pts[24].y) > 80)

\* PressPose.tsx 176-178
wristsHorizAligned(f) ==
  /\ Abs(f.pts[15].x - f.pts[11].x) <= horizontalAlignTolerance
  /\ Abs(f.pts[16].x - f.pts[12].x) <= horizontalAlignTolerance

\* PressPose.tsx 180-182; the shoulder height is kept doubled
wristsAtShoulderHeight(f) ==
  LET shoulderY2 == f.pts[11].y + f.pts[12].y IN
    /\ Abs(2 * f.pts[15].y - shoulderY2) <= 2 * shoulderBand
    /\ Abs(2 * f.pts[16].y - shoulderY2) <= 2 * shoulderBand

\* PressPose.tsx 183-184
wristsClearlyOverhead(f) ==
  LET shoulderY2 == f.pts[11].y + f.pts[12].y IN
    /\ 2 * f.pts[15].y < shoulderY2 - 2 * minOverheadLift
    /\ 2 * f.pts[16].y < shoulderY2 - 2 * minOverheadLift

\* PressPose.tsx 192-194; the history holds doubled angles
stableEnough(history) ==
  /\ Len(history) >= STABILITY_FRAMES
  /\ Abs(history[Len(history)] - history[1]) < 2 * STABILITY_DELTA

\* PressPose.tsx 198-203
isBottom(f) ==
  /\ f.leftAngle <= bottomElbowMax /\ f.leftAngle >= bottomElbowMin
  /\ f.rightAngle <= bottomElbowMax /\ f.rightAngle >= bottomElbowMin
  /\ wristsAtShoulderHeight(f)

\* PressPose.tsx 204-207
isTop(f) ==
  f.leftAngle >= topElbowMin /\ f.rightAngle >= topElbowMin /\ wristsClearlyOverhead(f)

\* PressPose.tsx 214
PressCanCount(target, count) == target = 0 \/ count < target

\* PressPose.tsx 212
PressCountsRep(f, stage) == isTop(f) /\ stage = "down"

\* PressPose.tsx 159-227: the counting part of pose.onResults.  show tells
\* whether setShowCompletion(true) was called
PressCountStep(f, target, count, stage, hist) ==
  IF isMostlyVisible(f) /\ isTorsoUpright(f) THEN
    LET history == PushHistory(hist, f.leftAngle + f.rightAngle, STABILITY_FRAMES)
        stage1 == IF isBottom(f) THEN "down" ELSE stage
    IN
    IF stableEnough(history) /\ wristsHorizAligned(f) THEN
      IF PressCountsRep(f, stage1) THEN
        IF PressCanCount(target, count)
        THEN [count |-> count + 1, stage |-> "up", hist |-> history, status |-> "ready",
              show |-> target # 0 /\ count + 1 >= target]
        ELSE [count |-> count, stage |-> "up", hist |-> history, status |-> "ready",
              show |-> FALSE]
      ELSE [count |-> count, stage |-> stage1, hist |-> history, status |-> "ready",
            show |-> FALSE]
    ELSE [count |-> count, stage |-> stage, hist |-> history, status |-> "ready",
          show |-> FALSE]
  ELSE [count |-> count, stage |-> "neutral", hist |-> << >>, status |-> "not_visible",
        show |-> FALSE]

\* ------------------------------------------------ classification results
(***************************************************************************)
(* A parsed result.  Each field is optional: NoValue when the wire value   *)
(* is absent or fails the typeof / Number.isFinite test the code applies   *)
(* to it.  timestamp holds the latency Date.now() - data.timestamp.        *)
(***************************************************************************)
Result(e, c, rc, r, t) ==
  [exercise |-> e, confidence |-> c, rep_count |-> rc, reps |-> r, timestamp |-> t]

Trim(s) == IF s = " " THEN "" ELSE s

\* WebcamPose.tsx 222-227
PredictionAfter(data, prev) ==
  LET rawExercise == IF data.exercise # NoValue THEN Trim(Val(data.exercise)) ELSE ""
      confidence == IF data.confidence # NoValue THEN Val(data.confidence) ELSE 0
  IN [exercise |-> rawExercise,
      confidence |-> IF rawExercise # "" THEN confidence ELSE 0]

\* a faulty choice of the field that looks at reps first
RepsValueFromReps(data) ==
  IF data.reps # NoValue THEN data.reps
  ELSE IF data.rep_count # NoValue THEN data.rep_count ELSE NoValue

\* WebcamPose.tsx 228-233
RepsValue(data) ==
  IF data.rep_count # NoValue THEN data.rep_count
  ELSE IF data.reps # NoValue THEN data.reps ELSE NoValue

\* WebcamPose.tsx 234-237
RepCountAfter(data, count) ==
  IF RepsValue(data) # NoValue /\ Val(RepsValue(data)) > 0
  THEN Val(RepsValue(data)) ELSE count

\* WebcamPose.tsx 238-240
LatencyAfter(data, prev) ==
  IF data.timestamp # NoValue THEN data.timestamp ELSE prev

\* WebcamPose.tsx 96-100: the effect that follows a render with a new repCount
ShowCompletionAfter(count) ==
  IF mounted /\ count # repCount /\ targetReps > 0 /\ count >= targetReps
  THEN TRUE ELSE showCompletion

\* WebcamPose.tsx 221-241.  State setters do nothing once the component is
\* unmounted; the ref is written either way.
applyPredictionUpdate(data) ==
  /\ prediction' = IF mounted THEN PredictionAfter(data, prediction) ELSE prediction
  /\ repCount' = RepCountAfter(data, repCount)
  /\ latencyMs' = IF mounted THEN LatencyAfter(data, latencyMs) ELSE latencyMs

\* ------------------------------------------------------- the host bridge
(***************************************************************************)
(* Two versions of services/flutterBridge.ts are in the repository:        *)
(* "flutterBridge.ts" accepts the statuses done, tobecontinued and         *)
(* no_performance and calls the handler completeExercise; "part_001"       *)
(* accepts done, inprogress and no_performance and calls myAppHandler,     *)
(* then completeExercise.                                                  *)
(***************************************************************************)
BridgeVersions == {"flutterBridge.ts", "part_001"}

AcceptedStatuses(version) ==
  IF version = "flutterBridge.ts"
  THEN {"done", "tobecontinued", "no_performance"}
  ELSE {"done", "inprogress", "no_performance"}

FirstHandler(version) ==
  IF version = "flutterBridge.ts" THEN "completeExercise" ELSE "myAppHandler"

\* the payload object; slotId is NoValue when the object has no such field
Payload(type, slotId, status, reps) ==
  [type |-> type, userId |-> "No_ID", slotId |-> slotId,
   exerciseStatus |-> status, repsDone |-> reps]

\* flutterBridge.ts 39-47
ValidPayload(version, payload) ==
  /\ payload.type = "EXERCISE_COMPLETED"
  /\ payload.userId # ""
  /\ payload.slotId # NoValue /\ Val(payload.slotId) # ""
  /\ payload.exerciseStatus \in AcceptedStatuses(version)
  /\ payload.repsDone >= 0

\* the calls in flight and the handler invocations made so far
Br == [calls |-> calls, log |-> hostLog, exit |-> webviewExit,
       issued |-> bridgeIssued, ret |-> bridgeReturn]

\* flutterBridge.ts 35-50: sendExerciseCompletedToFlutter up to its first
\* await; thenExit tells whether the caller exits the web view once the
\* call settles
StartCall(b, payload, thenExit) ==
  IF sentOnce \/ ~ flutterReady \/ ~ ValidPayload(bridge, payload) \/ ~ flutterHandler
  THEN [b EXCEPT !.exit = b.exit \/ thenExit,
                 !.issued = b.issued \cup {payload.exerciseStatus},
                 !.ret = "null"]
  ELSE [b EXCEPT
          !.issued = b.issued \cup {payload.exerciseStatus},
          !.log = Append(b.log, [handler |-> FirstHandler(bridge), payload |-> payload]),
          !.calls = Append(b.calls, [payload |-> payload, step |-> 1,
                                     primary |-> "null", thenExit |-> thenExit])]

SetBr(b) ==
  /\ calls' = b.calls
  /\ hostLog' = b.log
  /\ bridgeIssued' = b.issued
  /\ bridgeReturn' = b.ret
  /\ webviewExit' = b.exit

RemoveAt(seq, i) == [ j \in 1..(Len(seq) - 1) |-> IF j < i THEN seq[j] ELSE seq[j + 1] ]

\* part_001 52: ack = primary ?? secondary
Coalesce(primary, secondary) == IF primary # "null" THEN primary ELSE secondary

\* ExercisePageLayout.tsx 443-449
CoachPayload(status, reps) ==
  Payload(IF status = "inprogress" THEN "EXERCISE_SKIPED" ELSE "EXERCISE_COMPLETED",
          Some("No_ID"), status, reps)

\* PressPose.tsx 110-116: buildFlutterPayload; the object has an exerciseId
\* and no slotId
buildFlutterPayload(status, reps) ==
  Payload("EXERCISE_COMPLETED", NoValue, status, reps)

\* PressPose.tsx 357-373: the effects of a render of the press page: the
\* cleanup of the no_performance effect, then the done effect
PressRender(b, count, show, sent) ==
  LET b1 == IF count = 0
            THEN StartCall(b, buildFlutterPayload("no_performance", 0), FALSE)
            ELSE b
  IN IF show /\ ~ sent
     THEN [b |-> StartCall(b1, buildFlutterPayload("done", count), FALSE), sent |-> TRUE]
     ELSE [b |-> b1, sent |-> sent]

\* --------------------------------------------------------------- transport
(***************************************************************************)
(* The refs and state of the transport as one record, so that a handler    *)
(* and the effect run it triggers compose as functions.                    *)
(*   rest, open   useRestFallback, isSocketOpen                            *)
(*   ref          socketRef.current                                        *)
(*   socks, next  the WebSockets created so far                            *)
(*   fail         wsFailureCountRef.current                                *)
(*   timer        reconnectTimeoutRef.current                              *)
(*   delay        reconnectDelayMs of each run of the socket effect; a run *)
(*                is named by the first socket it creates                  *)
(* A socket is "connecting", "open", "closing" (close() was called, the    *)
(* close event is still to come), "failed" (the error event fired, the     *)
(* close event is still to come) or "closed"; "unused" ids are not yet     *)
(* created.                                                                *)
(***************************************************************************)
Tr == [rest |-> useRestFallback, open |-> isSocketOpen, ref |-> socketRef,
       socks |-> sockets, next |-> nextSock, fail |-> wsFailureCount,
       timer |-> reconnectTimeout, pending |-> timersPending,
       delay |-> reconnectDelayMs]

SetTr(t) ==
  /\ useRestFallback' = t.rest
  /\ isSocketOpen' = t.open
  /\ socketRef' = t.ref
  /\ sockets' = t.socks
  /\ nextSock' = t.next
  /\ wsFailureCount' = t.fail
  /\ reconnectTimeout' = t.timer
  /\ timersPending' = t.pending
  /\ reconnectDelayMs' = t.delay

NoTimer == [on |-> FALSE, run |-> 0, delay |-> 0]

\* if (reconnectTimeoutRef.current) { clearTimeout(...); ... = null; }
ClearTimer(t) ==
  [t EXCEPT !.timer = NoTimer,
            !.pending = IF t.timer.on THEN t.pending - 1 ELSE t.pending]
Live(st) == st \in {"connecting", "open", "closing", "failed"}

\* WebSocket.close(): a connecting or open socket starts closing; otherwise
\* nothing happens
CloseSocket(socks, id) ==
  IF socks[id].st \in {"connecting", "open"}
  THEN [socks EXCEPT ![id].st = "closing"] ELSE socks

\* a faulty connect() that ignores the transport mode
ConnectAnyMode(t, rest, run) ==
  LET id == t.next + 1 IN
    [t EXCEPT !.next = id,
              !.ref = id,
              !.socks = [t.socks EXCEPT ![id] =
                           [st |-> "connecting", run |-> IF run = 0 THEN id ELSE run,
                            reset |-> FALSE]]]

\* WebcamPose.tsx 488-498: connect() of the effect run `run` (0: a run that
\* has created no socket yet), whose closure captured useRestFallback = rest
Connect(t, rest, run) ==
  IF rest THEN t
  ELSE IF t.ref # 0 /\ t.socks[t.ref].st = "open" THEN t
  ELSE LET id == t.next + 1 IN
    [t EXCEPT !.next = id,
              !.ref = id,
              !.socks = [t.socks EXCEPT ![id] =
                           [st |-> "connecting", run |-> IF run = 0 THEN id ELSE run,
                            reset |-> FALSE]]]

\* a faulty cleanup that closes the socket but keeps the reference to it
CleanupKeepsRef(t) ==
  ClearTimer([t EXCEPT !.socks = IF t.ref # 0 THEN CloseSocket(t.socks, t.ref)
                                    ELSE t.socks])

\* WebcamPose.tsx 546-555: cleanup of the socket effect
Cleanup(t) ==
  ClearTimer([t EXCEPT !.socks = IF t.ref # 0 THEN CloseSocket(t.socks, t.ref)
                                    ELSE t.socks,
                        !.ref = 0])

\* WebcamPose.tsx 485-487, 544: a run of the socket effect body
RunSocketEffect(t) ==
  LET t1 == Connect(t, t.rest, 0) IN
    IF t1.next # t.next
    THEN [t1 EXCEPT !.delay = [t1.delay EXCEPT ![t1.next] = ReconnectFloorMs]]
    ELSE t1

\* setUseRestFallback(v) followed by the render it causes: the socket effect
\* depends on useRestFallback, so a change cleans up and runs it again
SetRestFallback(t, v) ==
  IF mounted /\ t.rest # v
  THEN RunSocketEffect(Cleanup([t EXCEPT !.rest = v]))
  ELSE t

SetSocketOpen(t, v) == IF mounted THEN [t EXCEPT !.open = v] ELSE t

\* a faulty onopen that leaves the failure counter alone
OnOpenKeepsCount(t, s) ==
  LET t1 == SetSocketOpen([t EXCEPT !.socks[s].st = "open"], TRUE)
      t2 == SetRestFallback(t1, FALSE)
  IN [t2 EXCEPT !.delay[t.socks[s].run] = ReconnectFloorMs]

\* a faulty onopen that leaves the backoff where it is
OnOpenKeepsDelay(t, s) ==
  LET t1 == SetSocketOpen([t EXCEPT !.socks[s].st = "open"], TRUE)
      t2 == SetRestFallback(t1, FALSE)
  IN [t2 EXCEPT !.fail = 0]

\* WebcamPose.tsx 499-504: socket.onopen
OnOpen(t, s) ==
  LET t1 == SetSocketOpen([t EXCEPT !.socks[s].st = "open"], TRUE)
      t2 == SetRestFallback(t1, FALSE)
  IN [t2 EXCEPT !.delay[t.socks[s].run] = ReconnectFloorMs, !.fail = 0]

\* WebcamPose.tsx 515-518: socket.onerror
OnError(t, s) ==
  [t EXCEPT !.socks[s].st = "failed", !.fail = t.fail + 1]

\* WebcamPose.tsx 531-537: schedule the reconnect of the run of socket s
ScheduleReconnect(t, s) ==
  IF ~ t.timer.on
  THEN [t EXCEPT !.pending = t.pending + 1,
                 !.timer = [on |-> TRUE, run |-> t.socks[s].run,
                            delay |-> t.delay[t.socks[s].run]]]
  ELSE t

\* a faulty threshold test that lets the counter pass the threshold
ReachedLimitLate(fail) == fail > WsFailureLimit

\* WebcamPose.tsx 523: the failure counter has reached the threshold
ReachedFailureLimit(fail) == fail >= WsFailureLimit

\* WebcamPose.tsx 520-538: socket.onclose
OnClose(t, s) ==
  LET t1 == SetSocketOpen([t EXCEPT !.socks[s].st = "closed"], FALSE)
      t2 == [t1 EXCEPT !.fail = t.fail + 1]
  IN IF ReachedFailureLimit(t2.fail)
     THEN SetRestFallback(ClearTimer(t2), TRUE)
     ELSE ScheduleReconnect(t2, s)

\* a faulty backoff that quadruples the delay
NextDelayQuadruple(d) == Min(d * 4, ReconnectCeilingMs)

\* WebcamPose.tsx 534
NextDelay(d) == Min(d * 2, ReconnectCeilingMs)

\* WebcamPose.tsx 532-536: the reconnect timer fires
OnTimer(t) ==
  LET run == t.timer.run
      t1 == [t EXCEPT !.timer = NoTimer, !.pending = t.pending - 1,
                      !.delay[run] = NextDelay(t.delay[run])]
  IN Connect(t1, FALSE, run)

\* WebcamPose.tsx 264-276: handleRetryWebsocket, then the render it causes
OnRetry(t) ==
  LET t1 == ClearTimer([t EXCEPT !.fail = 0])
      t2 == IF t1.ref # 0 /\ t1.socks[t1.ref].st = "open"
            THEN [t1 EXCEPT !.socks = [CloseSocket(t1.socks, t1.ref)
                                         EXCEPT ![t1.ref].reset = TRUE],
                            !.ref = 0]
            ELSE t1
  IN SetRestFallback(t2, FALSE)

\* ------------------------------------------------------------- send gating
\* a faulty interval test that lets every sample through
AnyInterval(since) == TRUE

\* WebcamPose.tsx 311
IntervalElapsed(since) == since >= sendIntervalMs

\* WebcamPose.tsx 309-321: what pose.onResults does with the sample:
\* "skip", "baseline" (stored, not sent), "rest" or "socket"
SendKind(f) ==
  IF f.len = 0 THEN "skip"
  ELSE IF ~ IntervalElapsed(sinceSend) THEN "skip"
  ELSE IF ~ isValidLandmarks(f) THEN "skip"
  ELSE IF lastSentKeypoints = << >> THEN "baseline"
  ELSE IF ~ hasSufficientMotion(filteredLandmarks(f), lastSentKeypoints) THEN "skip"
  ELSE IF seenRestFallback THEN "rest"
  ELSE IF socketRef # 0 /\ seenSocketOpen THEN "socket"
  ELSE "skip"

\* the sample of frame f goes out through `via`
Transmitted(f, via) ==
  /\ sinceTx' = 0
  /\ txLog' = [n |-> Min(txLog.n + 1, 2), gap |-> sinceTx,
               delta |-> MaxDeltaY(filteredLandmarks(f), lastSentKeypoints, 1),
               via |-> via, session |-> exercise]

\* WebcamPose.tsx 318-319, 329-330
MarkSent(f) ==
  /\ lastSentKeypoints' = filteredLandmarks(f)
  /\ sinceSend' = 0

\* a faulty sendRestPrediction without the in-flight guard
SendRestUnguarded(f) ==
  /\ restInFlight' = TRUE
  /\ restPending' = restPending + 1
  /\ Transmitted(f, "rest")

\* WebcamPose.tsx 243-245: sendRestPrediction up to its await
SendRest(f) ==
  IF restInFlight
  THEN UNCHANGED << restInFlight, restPending, sinceTx, txLog >>
  ELSE /\ restInFlight' = TRUE
       /\ restPending' = restPending + 1
       /\ Transmitted(f, "rest")

\* WebcamPose.tsx 322-333: socket.send throws on a connecting socket, sends
\* on an open one and discards the data on a closing or closed one
SendSocket(f) ==
  /\ UNCHANGED << restInFlight, restPending >>
  /\ IF sockets[socketRef].st = "connecting"
     THEN UNCHANGED << lastSentKeypoints, sinceSend, sinceTx, txLog >>
     ELSE /\ MarkSent(f)
          /\ IF sockets[socketRef].st = "open"
             THEN Transmitted(f, "socket")
             ELSE UNCHANGED << sinceTx, txLog >>

\* a faulty gate that transmits the first sample instead of keeping it back
SendStepFirstSent(f) ==
  LET kind == SendKind(f) IN
    CASE kind = "baseline" ->
           /\ lastSentKeypoints' = filteredLandmarks(f)
           /\ sinceTx' = 0
           /\ txLog' = [txLog EXCEPT !.n = Min(txLog.n + 1, 2), !.gap = sinceTx]
           /\ UNCHANGED << sinceSend, restInFlight, restPending >>
      [] kind = "rest" -> MarkSent(f) /\ SendRest(f)
      [] kind = "socket" -> SendSocket(f)
      [] OTHER ->
           UNCHANGED << lastSentKeypoints, sinceSend, restInFlight, restPending,
                        sinceTx, txLog >>

\* WebcamPose.tsx 309-338
SendStep(f) ==
  LET kind == SendKind(f) IN
    CASE kind = "baseline" ->
           /\ lastSentKeypoints' = filteredLandmarks(f)
           /\ UNCHANGED << sinceSend, restInFlight, restPending, sinceTx, txLog >>
      [] kind = "rest" -> MarkSent(f) /\ SendRest(f)
      [] kind = "socket" -> SendSocket(f)
      [] OTHER ->
           UNCHANGED << lastSentKeypoints, sinceSend, restInFlight, restPending,
                        sinceTx, txLog >>

\* ----------------------------------------------------------------- actions
\* the log of handled frames: the doubled knee angle of the frame, whether it
\* carried landmarks and passed the visibility check, the pose status it was
\* given and the stage and count it left
LogOff == [on |-> FALSE, seq |-> << >>]
LogOn == [on |-> TRUE, seq |-> << >>]

Logged(log, f, c) ==
  IF log.on
  THEN [log EXCEPT !.seq = Append(log.seq, [angle2 |-> f.leftAngle + f.rightAngle,
                                            detected |-> f.len # 0,
                                            inView |-> isPoseFullyVisible(f),
                                            status |-> c.status,
                                            stage |-> c.stage,
                                            count |-> c.count])]
  ELSE log

\* WebcamPose.tsx 301-395: pose.onResults for one frame
Frame(f) ==
  /\ mounted
  /\ page = "squat"
  /\ frameLog.on => Len(frameLog.seq) < MaxLog
  /\ \E c \in {CountStep(f, targetReps, repCount, repStage, kneeAngleHistory)} :
       /\ c.count <= MaxReps
       /\ frameLog' = Logged(frameLog, f, c)
       /\ repCount' = c.count
       /\ repStage' = c.stage
       /\ kneeAngleHistory' = c.hist
       /\ poseStatus' = c.status
  /\ SendStep(f)
  /\ UNCHANGED << mounted, exercise, targetReps, prediction, latencyMs,
                  seenRestFallback, seenSocketOpen, tvars_socket, failedConns,
                  reconnects >>
  /\ showCompletion' = ShowCompletionAfter(repCount')
  /\ UNCHANGED << completionSent, pendingCompletions, webviewExit, bvars >>
  /\ UNCHANGED << config, angleCalc >>

\* the clock advances
Tick ==
  /\ sinceSend < sendIntervalMs \/ sinceTx < sendIntervalMs
  /\ sinceSend' = Min(sinceSend + TickMs, sendIntervalMs)
  /\ sinceTx' = Min(sinceTx + TickMs, sendIntervalMs)
  /\ UNCHANGED << wvars, lastSentKeypoints, seenRestFallback, seenSocketOpen, tvars,
                  txLog, failedConns, reconnects >>
  /\ UNCHANGED << cvars, bvars >>
  /\ UNCHANGED << frameLog, config, angleCalc >>

\* WebcamPose.tsx 106-117: the exercise prop changes
ChangeExercise(e) ==
  /\ mounted
  /\ page = "squat"
  /\ e # exercise
  /\ exercise' = e
  /\ repCount' = 0
  /\ repStage' = "neutral"
  /\ kneeAngleHistory' = << >>
  /\ lastSentKeypoints' = << >>
  /\ prediction' = [exercise |-> "", confidence |-> 0]
  /\ UNCHANGED << mounted, targetReps, poseStatus, latencyMs, sinceSend,
                  seenRestFallback, seenSocketOpen, tvars, hvars >>
  /\ showCompletion' = FALSE
  /\ UNCHANGED << completionSent, pendingCompletions, webviewExit, bvars >>
  /\ UNCHANGED << frameLog, config, angleCalc >>

\* WebcamPose.tsx 278-483: onFrameCaptured or onLandmarks changes identity, the
\* pose effect runs again and its onResults closure captures the current state
PropsChange ==
  /\ mounted
  /\ page = "squat"
  /\ seenRestFallback # useRestFallback \/ seenSocketOpen # isSocketOpen
  /\ seenRestFallback' = useRestFallback
  /\ seenSocketOpen' = isSocketOpen
  /\ UNCHANGED << wvars, sinceSend, lastSentKeypoints, tvars, hvars >>
  /\ UNCHANGED << cvars, bvars >>
  /\ UNCHANGED << frameLog, config, angleCalc >>

\* socket.onopen of socket s
SockOpen(s) ==
  /\ sockets[s].st = "connecting"
  /\ OnOpen(Tr, s).next <= MaxSockets
  /\ SetTr(OnOpen(Tr, s))
  /\ failedConns' = 0
  /\ reconnects' = 0
  /\ UNCHANGED << wvars, gvars, restInFlight, restPending, sinceTx, txLog >>
  /\ UNCHANGED << cvars, bvars >>
  /\ UNCHANGED << frameLog, config, angleCalc >>

\* WebcamPose.tsx 506-513: socket.onmessage of socket s; a message that does
\* not parse (parses = FALSE) is dropped
SockMessage(s, parses, data) ==
  /\ sockets[s].st \in {"open", "closing"}
  /\ IF ~ parses
     THEN UNCHANGED << prediction, repCount, latencyMs >>
     ELSE /\ RepCountAfter(data, repCount) <= MaxReps
          /\ applyPredictionUpdate(data)
  /\ UNCHANGED << mounted, exercise, targetReps, repStage, kneeAngleHistory,
                  poseStatus, gvars, tvars, hvars >>
  /\ showCompletion' = ShowCompletionAfter(repCount')
  /\ UNCHANGED << completionSent, pendingCompletions, webviewExit, bvars >>
  /\ UNCHANGED << frameLog, config, angleCalc >>

\* socket.onerror of socket s
SockError(s) ==
  /\ sockets[s].st \in {"connecting", "open", "closing"}
  /\ SetTr(OnError(Tr, s))
  /\ UNCHANGED << wvars, gvars, restInFlight, restPending, hvars >>
  /\ UNCHANGED << cvars, bvars >>
  /\ UNCHANGED << frameLog, config, angleCalc >>

\* socket.onclose of socket s
SockClose(s) ==
  /\ Live(sockets[s].st)
  /\ SetTr(OnClose(Tr, s))
  /\ failedConns' = failedConns + 1
  /\ UNCHANGED reconnects
  /\ UNCHANGED << wvars, gvars, restInFlight, restPending, sinceTx, txLog >>
  /\ UNCHANGED << cvars, bvars >>
  /\ UNCHANGED << frameLog, config, angleCalc >>

\* the reconnect timer fires
Timer ==
  /\ reconnectTimeout.on
  /\ OnTimer(Tr).next <= MaxSockets
  /\ SetTr(OnTimer(Tr))
  /\ reconnects' = reconnects + 1
  /\ UNCHANGED << wvars, gvars, restInFlight, restPending, sinceTx, txLog,
                  failedConns >>
  /\ UNCHANGED << cvars, bvars >>
  /\ UNCHANGED << frameLog, config, angleCalc >>

\* the manual reset action
Retry ==
  /\ mounted
  /\ page = "squat"
  /\ OnRetry(Tr).next <= MaxSockets
  /\ SetTr(OnRetry(Tr))
  /\ latencyMs' = NoValue
  /\ failedConns' = 0
  /\ UNCHANGED reconnects
  /\ UNCHANGED << mounted, exercise, targetReps, repCount, repStage, kneeAngleHistory,
                  poseStatus, prediction, gvars, restInFlight, restPending,
                  sinceTx, txLog >>
  /\ UNCHANGED << cvars, bvars >>
  /\ UNCHANGED << frameLog, config, angleCalc >>

\* a faulty sendRestPrediction that clears the in-flight marker only after a
\* response it could apply
RestDoneNoFinally(outcome, data) ==
  /\ restPending > 0
  /\ restPending' = restPending - 1
  /\ restInFlight' = (outcome # "ok")
  /\ IF outcome = "ok"
     THEN /\ RepCountAfter(data, repCount) <= MaxReps
          /\ applyPredictionUpdate(data)
     ELSE UNCHANGED << prediction, repCount, latencyMs >>
  /\ UNCHANGED << mounted, exercise, targetReps, repStage, kneeAngleHistory,
                  poseStatus, gvars, tvars_socket, hvars >>
  /\ showCompletion' = ShowCompletionAfter(repCount')
  /\ UNCHANGED << completionSent, pendingCompletions, webviewExit, bvars >>
  /\ UNCHANGED << frameLog, config, angleCalc >>

\* WebcamPose.tsx 246-261: the fetch of sendRestPrediction settles.  outcome
\* is "ok" (2xx and a body that parses), "status" (not 2xx), "error" (fetch
\* rejects) or "body" (res.json() rejects)
RestDone(outcome, data) ==
  /\ restPending > 0
  /\ restPending' = restPending - 1
  /\ restInFlight' = FALSE
  /\ IF outcome = "ok"
     THEN /\ RepCountAfter(data, repCount) <= MaxReps
          /\ applyPredictionUpdate(data)
     ELSE UNCHANGED << prediction, repCount, latencyMs >>
  /\ UNCHANGED << mounted, exercise, targetReps, repStage, kneeAngleHistory,
                  poseStatus, gvars, tvars_socket, hvars >>
  /\ showCompletion' = ShowCompletionAfter(repCount')
  /\ UNCHANGED << completionSent, pendingCompletions, webviewExit, bvars >>
  /\ UNCHANGED << frameLog, config, angleCalc >>

\* WebcamPose.tsx 472-482, 546-555: the component unmounts
Unmount ==
  /\ mounted
  /\ page = "squat"
  /\ mounted' = FALSE
  /\ SetTr(Cleanup(Tr))
  /\ UNCHANGED << exercise, targetReps, repCount, repStage, kneeAngleHistory,
                  poseStatus, prediction, latencyMs, gvars, restInFlight,
                  restPending, hvars >>
  /\ UNCHANGED << cvars, bvars >>
  /\ UNCHANGED << frameLog, config, angleCalc >>

\* ---------------------------------------- actions of the coach page
\* ExercisePageLayout.tsx 499-565, 233-237: pose.onResults for one frame,
\* then the completion effect
CoachFrame(f) ==
  /\ mounted
  /\ page = "coach"
  /\ \E c \in {CountStep(f, targetReps, repCount, repStage, kneeAngleHistory)} :
       /\ c.count <= MaxReps
       /\ repCount' = c.count
       /\ repStage' = c.stage
       /\ kneeAngleHistory' = c.hist
       /\ poseStatus' = c.status
  /\ showCompletion' = ShowCompletionAfter(repCount')
  /\ UNCHANGED << mounted, exercise, targetReps, prediction, latencyMs, gvars, tvars,
                  hvars, completionSent, pendingCompletions, webviewExit, bvars >>
  /\ UNCHANGED << frameLog, config, angleCalc >>

\* ExercisePageLayout.tsx 243-255: the exercise prop changes
CoachChangeExercise(e) ==
  /\ mounted
  /\ page = "coach"
  /\ e # exercise
  /\ exercise' = e
  /\ repCount' = 0
  /\ repStage' = "neutral"
  /\ kneeAngleHistory' = << >>
  /\ showCompletion' = FALSE
  /\ UNCHANGED << mounted, targetReps, poseStatus, prediction, latencyMs, gvars, tvars,
                  hvars, completionSent, pendingCompletions, webviewExit, bvars >>
  /\ UNCHANGED << frameLog, config, angleCalc >>

\* ExercisePageLayout.tsx 225-231, 986: the test-complete button
CoachTestComplete ==
  /\ mounted
  /\ page = "coach"
  /\ \E nextReps \in {IF targetReps > 0 THEN targetReps ELSE repCount + 1} :
       /\ nextReps <= MaxReps
       /\ repCount' = nextReps
  /\ showCompletion' = TRUE
  /\ UNCHANGED << mounted, exercise, targetReps, repStage, kneeAngleHistory, poseStatus,
                  prediction, latencyMs, gvars, tvars, hvars, completionSent,
                  pendingCompletions, webviewExit, bvars >>
  /\ UNCHANGED << frameLog, config, angleCalc >>

\* ExercisePageLayout.tsx 438-442: sendCompletion up to its first await
sendCompletion(status) ==
  IF completionSent
  THEN UNCHANGED << completionSent, pendingCompletions >>
  ELSE /\ completionSent' = TRUE
       /\ pendingCompletions' = Append(pendingCompletions, status)

\* ExercisePageLayout.tsx 467-470, 860: the OK button of the completion dialog
CoachCompletionOk ==
  /\ mounted
  /\ page = "coach"
  /\ showCompletion
  /\ showCompletion' = FALSE
  /\ sendCompletion("done")
  /\ UNCHANGED << wvars, gvars, tvars, hvars, webviewExit, bvars >>
  /\ UNCHANGED << frameLog, config, angleCalc >>

\* ExercisePageLayout.tsx 966: the Continue later button
CoachContinueLater ==
  /\ mounted
  /\ page = "coach"
  /\ sendCompletion("inprogress")
  /\ UNCHANGED << wvars, gvars, tvars, hvars, showCompletion, webviewExit, bvars >>
  /\ UNCHANGED << frameLog, config, angleCalc >>

\* ExercisePageLayout.tsx 442-462: the import of the bridge resolves and
\* sendCompletion goes on to its call of the bridge
CoachImportDone ==
  /\ page = "coach"
  /\ pendingCompletions # << >>
  /\ pendingCompletions' = Tail(pendingCompletions)
  /\ SetBr(StartCall(Br, CoachPayload(Head(pendingCompletions), repCount), TRUE))
  /\ UNCHANGED << wvars, gvars, tvars, hvars, showCompletion, completionSent,
                  page, bridge, flutterHandler, flutterReady, sentOnce >>
  /\ UNCHANGED << frameLog, config, angleCalc >>

\* ExercisePageLayout.tsx 648-659: the component unmounts
CoachUnmount ==
  /\ mounted
  /\ page = "coach"
  /\ mounted' = FALSE
  /\ UNCHANGED << exercise, targetReps, repCount, repStage, kneeAngleHistory,
                  poseStatus, prediction, latencyMs, gvars, tvars, hvars, cvars, bvars >>
  /\ UNCHANGED << frameLog, config, angleCalc >>

\* ------------------------------------------- actions of the host bridge
\* flutterBridge.ts 4-9: the flutterInAppWebViewPlatformReady event
FlutterReady ==
  /\ ~ flutterReady
  /\ flutterReady' = TRUE
  /\ UNCHANGED << wvars, gvars, tvars, hvars, cvars, page, bridge, flutterHandler,
                  sentOnce, calls, hostLog, bridgeIssued, bridgeReturn >>
  /\ UNCHANGED << frameLog, config, angleCalc >>

\* a faulty ending that lets the rejection of the handler through
SettledValueRethrows(r) ==
  IF r = "ack" THEN "ack" ELSE IF r = "reject" THEN "rejected" ELSE "null"

\* flutterBridge.ts 51-59: the value the call resolves to when the handler
\* replied r: the acknowledgement, or null (also from the catch)
SettledValue(r) == IF r = "ack" THEN "ack" ELSE "null"

\* the call i settles with the caller's exit, if any
Settle(i, ack) ==
  /\ sentOnce' = (sentOnce \/ ack = "ack")
  /\ bridgeReturn' = SettledValue(ack)
  /\ calls' = RemoveAt(calls, i)
  /\ webviewExit' = (webviewExit \/ calls[i].thenExit)
  /\ UNCHANGED hostLog

\* flutterBridge.ts 50-59, part_001 50-61: the handler call that call i awaits
\* settles: with an acknowledgement ("ack"), null, another object ("other")
\* or a rejection ("reject")
HostReply(i, r) ==
  /\ i \in DOMAIN calls
  /\ IF bridge = "flutterBridge.ts" THEN Settle(i, r)
     ELSE IF calls[i].step = 1 THEN
       IF r = "reject" THEN Settle(i, r)
       ELSE /\ hostLog' = Append(hostLog, [handler |-> "completeExercise",
                                           payload |-> calls[i].payload])
            /\ calls' = [calls EXCEPT ![i].step = 2, ![i].primary = r]
            /\ UNCHANGED << sentOnce, webviewExit, bridgeReturn >>
     ELSE Settle(i, Coalesce(calls[i].primary, IF r = "reject" THEN "null" ELSE r))
  /\ UNCHANGED << wvars, gvars, tvars, hvars, showCompletion, completionSent,
                  pendingCompletions, page, bridge, flutterHandler, flutterReady,
                  bridgeIssued >>
  /\ UNCHANGED << frameLog, config, angleCalc >>

\* ---------------------------------------- actions of the press page
\* PressPose.tsx 156-231, 357-373: pose.onResults for one frame, then the
\* effects of the render it causes
PressFrame(f) ==
  /\ mounted
  /\ page = "press"
  /\ \E c \in {PressCountStep(f, targetReps, repCount, repStage, kneeAngleHistory)} :
       /\ c.count <= MaxReps
       /\ repCount' = c.count
       /\ repStage' = c.stage
       /\ kneeAngleHistory' = c.hist
       /\ poseStatus' = c.status
       /\ showCompletion' = (showCompletion \/ c.show)
       /\ \E r \in { IF c.count # repCount \/ c.status # poseStatus
                          \/ (c.show /\ ~ showCompletion)
                       THEN PressRender(Br, c.count, showCompletion \/ c.show,
                                        completionSent)
                       ELSE [b |-> Br, sent |-> completionSent] } :
            /\ completionSent' = r.sent
            /\ SetBr(r.b)
  /\ UNCHANGED << mounted, exercise, targetReps, prediction, latencyMs, gvars, tvars,
                  hvars, pendingCompletions, page, bridge, flutterHandler,
                  flutterReady, sentOnce >>
  /\ UNCHANGED << frameLog, config, angleCalc >>

\* PressPose.tsx 120-126, 537: the test-complete button
PressTestComplete ==
  /\ mounted
  /\ page = "press"
  /\ \E nextReps \in {IF targetReps > 0 THEN targetReps ELSE repCount + 1} :
       /\ nextReps <= MaxReps
       /\ repCount' = nextReps
       /\ \E r \in { IF nextReps # repCount \/ ~ showCompletion
                       THEN PressRender(Br, nextReps, TRUE, completionSent)
                       ELSE [b |-> Br, sent |-> completionSent] } :
            /\ completionSent' = r.sent
            /\ SetBr(r.b)
  /\ showCompletion' = TRUE
  /\ UNCHANGED << mounted, exercise, targetReps, repStage, kneeAngleHistory, poseStatus,
                  prediction, latencyMs, gvars, tvars, hvars, pendingCompletions,
                  page, bridge, flutterHandler, flutterReady, sentOnce >>
  /\ UNCHANGED << frameLog, config, angleCalc >>

\* PressPose.tsx 127-130, 604: the OK button of the completion dialog
PressCompletionOk ==
  /\ mounted
  /\ page = "press"
  /\ showCompletion
  /\ showCompletion' = FALSE
  /\ \E r \in { PressRender([Br EXCEPT !.exit = TRUE], repCount, FALSE, completionSent) } :
       /\ completionSent' = r.sent
       /\ SetBr(r.b)
  /\ UNCHANGED << wvars, gvars, tvars, hvars, pendingCompletions,
                  page, bridge, flutterHandler, flutterReady, sentOnce >>
  /\ UNCHANGED << frameLog, config, angleCalc >>

\* PressPose.tsx 509-517: the Continue later button
PressContinueLater ==
  /\ mounted
  /\ page = "press"
  /\ SetBr(StartCall(Br, buildFlutterPayload("tobecontinued", repCount), TRUE))
  /\ UNCHANGED << wvars, gvars, tvars, hvars, showCompletion, completionSent,
                  pendingCompletions, page, bridge, flutterHandler, flutterReady,
                  sentOnce >>
  /\ UNCHANGED << frameLog, config, angleCalc >>

\* PressPose.tsx 344-364: the component unmounts
PressUnmount ==
  /\ mounted
  /\ page = "press"
  /\ mounted' = FALSE
  /\ SetBr(PressRender(Br, repCount, FALSE, completionSent).b)
  /\ UNCHANGED << exercise, targetReps, repCount, repStage, kneeAngleHistory,
                  poseStatus, prediction, latencyMs, gvars, tvars, hvars,
                  showCompletion, completionSent, pendingCompletions,
                  page, bridge, flutterHandler, flutterReady, sentOnce >>
  /\ UNCHANGED << frameLog, config, angleCalc >>

\* ---------------------------------------------------------- initial state
Socks0 ==
  [id \in 1..(MaxSockets + 1) |-> [st |-> "unused", run |-> 0, reset |-> FALSE]]

\* a page without a transport
TrIdle ==
  [rest |-> FALSE, open |-> FALSE, ref |-> 0, socks |-> Socks0, next |-> 0,
   fail |-> 0, timer |-> NoTimer, pending |-> 0,
   delay |-> [id \in 1..(MaxSockets + 1) |-> ReconnectFloorMs]]

\* WebcamPose.tsx 485-544: the socket effect has run once
Tr0 == RunSocketEffect(TrIdle)

Targets == {0, 2}
Exercises == {"squat", "lunge"}

\* the values of the environment variable: not defined, or a base URL
BaseUrls == {NoValue, Some("http://api:8000")}

\* WebcamPose.tsx 74-80 and part_000 69: the base URL the component takes;
\* NoValue when the render throws
backendBase(variant, env) ==
  IF env # NoValue THEN env
  ELSE IF variant = "part_000" THEN Some("http://localhost:8000") ELSE NoValue

\* the transport after the first render: the socket effect has run when the
\* squat page has rendered
StartTr(p, variant, env) ==
  IF p = "squat" /\ backendBase(variant, env) # NoValue THEN Tr0 ELSE TrIdle

InitAll(p, version, handler, history, log, variant, env, calc) ==
  /\ page = p
  /\ showCompletion = FALSE
  /\ webviewExit = FALSE
  /\ completionSent = FALSE
  /\ pendingCompletions = << >>
  /\ bridge = version
  /\ flutterHandler = handler
  /\ flutterReady = FALSE
  /\ sentOnce = FALSE
  /\ calls = << >>
  /\ hostLog = << >>
  /\ bridgeIssued = {}
  /\ bridgeReturn = "none"
  /\ angleCalc = calc
  /\ config = [variant |-> variant, env |-> env, base |-> backendBase(variant, env)]
  /\ mounted = (backendBase(variant, env) # NoValue)
  /\ exercise = "squat"
  /\ targetReps \in Targets
  /\ repCount = 0
  /\ repStage = "neutral"
  /\ kneeAngleHistory = history
  /\ poseStatus = "not_visible"
  /\ prediction = [exercise |-> "", confidence |-> 0]
  /\ latencyMs = NoValue
  /\ sinceSend = sendIntervalMs
  /\ lastSentKeypoints = << >>
  /\ seenRestFallback = FALSE
  /\ seenSocketOpen = FALSE
  /\ useRestFallback = StartTr(p, variant, env).rest
  /\ isSocketOpen = StartTr(p, variant, env).open
  /\ socketRef = StartTr(p, variant, env).ref
  /\ sockets = StartTr(p, variant, env).socks
  /\ nextSock = StartTr(p, variant, env).next
  /\ wsFailureCount = StartTr(p, variant, env).fail
  /\ reconnectTimeout = StartTr(p, variant, env).timer
  /\ timersPending = StartTr(p, variant, env).pending
  /\ reconnectDelayMs = StartTr(p, variant, env).delay
  /\ restInFlight = FALSE
  /\ restPending = 0
  /\ sinceTx = sendIntervalMs
  /\ txLog = [n |-> 0, gap |-> sendIntervalMs, delta |-> 0, via |-> "none",
              session |-> "none"]
  /\ failedConns = 0
  /\ reconnects = 0
  /\ frameLog = log

\* no call of calculateAngle is followed
InitFull(p, version, handler, history, log, variant, env) ==
  InitAll(p, version, handler, history, log, variant, env, NoCalc)

\* the component of components/WebcamPose.tsx with the base URL configured
InitWith(p, version, handler, history, log) ==
  InitFull(p, version, handler, history, log, "WebcamPose.tsx", Some("http://api:8000"))

InitPage(p, version, handler) == InitWith(p, version, handler, << >>, LogOff)

\* the squat page: WebcamPose.tsx loads no bridge
Init == InitPage("squat", "flutterBridge.ts", FALSE)

\* ------------------------------------------------------------------ inputs
\* knee angle pairs (left, right): below the down threshold, between the
\* thresholds, and above the up threshold
KneeAngles == { << 95, 95 >>, << 130, 130 >>, << 164, 168 >> }

\* a frame in full view with level shoulders (and a depth that is not finite,
\* so that the frame is no sample for the transport)
GoodFrame(a) == SquatFrame(LandmarkCount, FALSE, 500, 300, 300, 600, 500, a[1], a[2])
\* the same with the right shoulder 0.1 lower than the left
TiltedFrame(a) == SquatFrame(LandmarkCount, FALSE, 500, 300, 400, 600, 500, a[1], a[2])
\* the same with the left ankle at x = 0.02, outside the central band
EdgeFrame(a) == SquatFrame(LandmarkCount, FALSE, 20, 300, 300, 600, 500, a[1], a[2])

\* a frame in view whose landmark list stops before the ankles (27, 28)
NoAnklesFrame == SquatFrame(27, FALSE, 500, 300, 300, 600, 500, 164, 168)

\* frames that exercise the counter
CountFrames ==
  {NoDetection, EdgeFrame(<< 164, 168 >>), NoAnklesFrame}
    \cup { GoodFrame(a) : a \in KneeAngles }
    \cup { TiltedFrame(a) : a \in { << 95, 95 >>, << 164, 168 >> } }

\* frames that exercise the send gate: a wrist that moves by 0, 2 or 5
\* thousandths, a truncated landmark list, a non-finite coordinate, an x of 0.
\* The left ankle is outside the central band, so these frames leave the
\* counter alone.
SendFrames ==
  {NoDetection} \cup
  { SquatFrame(LandmarkCount, TRUE, 20, 300, 300, 600, y15, 130, 130) :
      y15 \in {500, 502, 505} } \cup
  { SquatFrame(20, TRUE, 20, 300, 300, 600, 505, 130, 130),
    SquatFrame(LandmarkCount, FALSE, 20, 300, 300, 600, 505, 130, 130),
    SquatFrame(LandmarkCount, TRUE, 0, 300, 300, 600, 505, 130, 130) }

\* results that exercise the rep count
CountResults ==
  { Result(NoValue, NoValue, rc, r, NoValue) :
      rc \in {NoValue, Some(-1), Some(0), Some(1), Some(3)}, r \in {NoValue, Some(2)} }

\* results seen by the transport
SendResults == { Result(Some("squat"), Some(90), NoValue, NoValue, Some(40)) }

SocketIds == 1..MaxSockets

\* frames of the press page: elbows bent with the wrists at shoulder height,
\* elbows locked with the wrists overhead, elbows half way
PressBottom == PressFrameOf(LandmarkCount, 300, 380, 300, 90, 90)
PressTop == PressFrameOf(LandmarkCount, 300, 380, 100, 170, 170)
PressMid == PressFrameOf(LandmarkCount, 300, 380, 300, 140, 140)

\* a frame of the press page without poseLandmarks, and one whose landmark
\* list stops before the wrists (15, 16)
PressNoDetection == PressFrameOf(0, 300, 380, 300, 140, 140)
NoWristsFrame == PressFrameOf(14, 300, 380, 100, 170, 170)

PressFrames ==
  { PressBottom, PressTop, PressMid, PressNoDetection,
    \* elbows locked but the wrists at shoulder height
    PressFrameOf(LandmarkCount, 300, 380, 300, 170, 170),
    \* the left wrist far from the shoulder line
    PressFrameOf(LandmarkCount, 300, 900, 100, 170, 170),
    \* the right shoulder 0.1 lower than the left
    PressFrameOf(LandmarkCount, 400, 380, 100, 170, 170),
    NoWristsFrame }

\* the frames of a rep, for the sessions that report to the host
RepFrames == { GoodFrame(<< 95, 95 >>), GoodFrame(<< 164, 168 >>) }
PressRepFrames == { PressBottom, PressTop }

Pages == {"squat", "coach", "press"}
HostReplies == {"ack", "null", "other", "reject"}

\* the knee angles of a worked squat: standing, two frames at the bottom, and
\* standing again
ScenarioAngles == { << 170, 170 >>, << 95, 95 >>, << 97, 99 >>, << 165, 165 >> }

\* the frames of a worked squat, in view and out of view
ScenarioFrames ==
  {GoodFrame(a) : a \in ScenarioAngles}
    \cup {EdgeFrame(a) : a \in {<< 95, 95 >>, << 165, 165 >>}}
    \cup {NoDetection}

\* the window after no frame, and after one and two frames of a standing user
StartHistories == { << >>, << 340 >>, << 340, 340 >> }

\* the responses to a fallback request: a classification with a rep count,
\* and a body without any of the fields
StaleResults ==
  { Result(Some("squat"), Some(90), Some(1), NoValue, NoValue),
    Result(NoValue, NoValue, NoValue, NoValue, NoValue) }

\* classification results with and without a label and a confidence
\* (hundredths): no label, an empty one, a blank one, and two names; no
\* finite confidence, a negative one, zero, and 0.9
LabelResults ==
  { Result(e, c, NoValue, NoValue, NoValue) :
      e \in {NoValue, Some(""), Some(" "), Some("squat"), Some("lunge")},
      c \in {NoValue, Some(-5), Some(0), Some(90)} }

\* frames of a user who stands with knee angles of 165, 170 and 171 degrees
\* (adjacent differences of 5, 1 and 6 degrees) or is at the bottom
StableFrames ==
  { GoodFrame(a) : a \in { << 165, 165 >>, << 170, 170 >>, << 171, 171 >>, << 95, 95 >> } }

\* ---------------------------------------------------------- specifications
\* the rep counter of WebcamPose.tsx, with results arriving over the socket
InitCount == \E p \in Pages : InitPage(p, "flutterBridge.ts", FALSE)

NextCount ==
  \/ \E f \in CountFrames : Frame(f)
  \/ \E f \in CountFrames : CoachFrame(f)
  \/ \E f \in PressFrames : PressFrame(f)
  \/ \E s \in SocketIds : SockOpen(s)
  \/ \E s \in SocketIds, d \in CountResults : SockMessage(s, TRUE, d)
  \/ \E e \in Exercises : ChangeExercise(e)

SpecCount == InitCount /\ [][NextCount]_vars

\* the socket life cycle of WebcamPose.tsx
NextSocket ==
  \/ \E s \in SocketIds : SockOpen(s)
  \/ \E s \in SocketIds, p \in BOOLEAN, d \in SendResults : SockMessage(s, p, d)
  \/ \E s \in SocketIds : SockError(s)
  \/ \E s \in SocketIds : SockClose(s)
  \/ Timer
  \/ Retry
  \/ Unmount

SpecSocket == Init /\ [][NextSocket]_vars

\* the send gate of WebcamPose.tsx over both transports
NextSend ==
  \/ \E f \in SendFrames : Frame(f)
  \/ Tick
  \/ PropsChange
  \/ \E s \in SocketIds : SockOpen(s)
  \/ \E s \in SocketIds : SockError(s)
  \/ \E s \in SocketIds : SockClose(s)
  \/ Timer
  \/ \E o \in {"ok", "status", "error", "body"}, d \in SendResults : RestDone(o, d)

SpecSend == Init /\ [][NextSend]_vars

\* the sessions of the coach and press pages and their report to the host
InitBridge ==
  \E p \in {"coach", "press"}, v \in BridgeVersions, h \in BOOLEAN : InitPage(p, v, h)

NextBridge ==
  \/ FlutterReady
  \/ \E i \in {1, 2}, r \in HostReplies : HostReply(i, r)
  \/ \E f \in RepFrames : CoachFrame(f)
  \/ \E e \in Exercises : CoachChangeExercise(e)
  \/ CoachTestComplete
  \/ CoachCompletionOk
  \/ CoachContinueLater
  \/ CoachImportDone
  \/ CoachUnmount
  \/ \E f \in PressRepFrames : PressFrame(f)
  \/ PressTestComplete
  \/ PressCompletionOk
  \/ PressContinueLater
  \/ PressUnmount

SpecBridge == InitBridge /\ [][NextBridge]_vars

\* the send gate of WebcamPose.tsx across exercise changes
NextReset ==
  \/ \E f \in SendFrames : Frame(f)
  \/ Tick
  \/ PropsChange
  \/ \E s \in SocketIds : SockOpen(s)
  \/ \E s \in SocketIds : SockClose(s)
  \/ Timer
  \/ \E e \in Exercises : ChangeExercise(e)

SpecReset == Init /\ [][NextReset]_vars

\* fallback requests that are answered after the exercise has changed
NextStale ==
  \/ \E f \in SendFrames : Frame(f)
  \/ Tick
  \/ PropsChange
  \/ \E s \in SocketIds : SockClose(s)
  \/ Timer
  \/ \E e \in Exercises : ChangeExercise(e)
  \/ \E o \in {"ok", "error"}, d \in StaleResults : RestDone(o, d)

SpecStale == Init /\ [][NextStale]_vars

\* the squat counter from the neutral stage and a count of zero, fed a logged
\* run of frames
InitScenario ==
  \E h \in StartHistories : InitWith("squat", "flutterBridge.ts", FALSE, h, LogOn)

NextScenario == \E f \in ScenarioFrames : Frame(f)

SpecScenario == InitScenario /\ [][NextScenario]_vars

\* classification results that arrive over the socket
NextResult ==
  \/ \E s \in SocketIds : SockOpen(s)
  \/ \E s \in SocketIds, d \in LabelResults : SockMessage(s, TRUE, d)
  \/ \E s \in SocketIds : SockClose(s)
  \/ Timer

SpecResult == Init /\ [][NextResult]_vars

\* the squat page of either component file, with and without the base URL
InitConfig ==
  \E variant \in {"WebcamPose.tsx", "part_000"}, env \in BaseUrls :
    InitFull("squat", "flutterBridge.ts", FALSE, << >>, LogOff, variant, env)

SpecConfig == InitConfig /\ [][NextSend]_vars

\* the coordinates of the landmarks calculateAngle is tried on: 0, 1, 2, -1,
\* 1e-200 and 1e200
AngleCoordinates == {Num(0, 0), Num(1, 0), Num(2, 0), Num(-1, 0), Num(1, -1), Num(1, 1)}
AnglePoints == {[x |-> x, y |-> y] : x \in AngleCoordinates, y \in {Num(0, 0), Num(1, 0), Num(1, -1)}}

\* calculateAngle on three landmarks
InitAngle ==
  \E a \in AnglePoints, b \in AnglePoints, c \in AnglePoints :
    InitAll("squat", "flutterBridge.ts", FALSE, << >>, LogOff, "WebcamPose.tsx",
            Some("http://api:8000"),
            [a |-> a, b |-> b, c |-> c, done |-> FALSE, angle |-> NotANumber])

Calculate ==
  /\ ~ angleCalc.done
  /\ angleCalc' = [angleCalc EXCEPT !.done = TRUE,
                                   !.angle = calculateAngle(angleCalc.a, angleCalc.b,
                                                            angleCalc.c)]
  /\ UNCHANGED << wvars, gvars, tvars, hvars, cvars, bvars, frameLog, config >>

SpecAngle == InitAngle /\ [][Calculate]_vars

\* ---------------------------------------------------------------- claims
\* C1: within one session (no change of the exercise identifier) the rep
\* count never decreases, whatever frames, results and user actions
\* interleave, and it goes back to 0 when, and only when, the exercise
\* identifier changes.
C1_RepCountMonotone ==
  [][ /\ exercise' = exercise => repCount' >= repCount
      /\ exercise' # exercise => repCount' = 0 ]_vars

\* C2: a frame increments the rep count by exactly 1, and only when the rep
\* stage was down before the up condition is met; the stage it leaves is up,
\* and only a frame that meets the down condition sets the stage to down
\* again, so that later frames that meet the up condition count nothing
\* until then (squat, coach and press counters).
SquatFrameStep(f) == Frame(f) \/ CoachFrame(f)

C2_CountingFrame ==
  /\ \A f \in CountFrames :
        (SquatFrameStep(f) /\ repCount' # repCount) =>
          /\ repCount' = repCount + 1
          /\ repStage = "down"
          /\ f.leftAngle + f.rightAngle > 2 * upThreshold
          /\ repStage' = "up"
  /\ \A f \in PressFrames :
        (PressFrame(f) /\ repCount' # repCount) =>
          /\ repCount' = repCount + 1
          /\ repStage = "down"
          /\ isTop(f)
          /\ repStage' = "up"

C2_DownAgain ==
  (repStage' = "down" /\ repStage # "down") =>
    \/ \E f \in CountFrames :
         SquatFrameStep(f) /\ f.leftAngle + f.rightAngle < 2 * downThreshold
    \/ \E f \in PressFrames : PressFrame(f) /\ isBottom(f)

C2_OneRepPerDownUp == [][C2_CountingFrame /\ C2_DownAgain]_vars

\* a rep has been counted by a frame that found the stage down
C2_Witness == page = "squat" /\ repCount = 1 /\ repStage = "up" /\ poseStatus = "ready"

\* C3: when the target is set and the rep count has reached it at the start
\* of a frame, the frame does not increment the rep count, whatever its
\* angle and whatever the rep stage was (squat and press counters).
C3_NoCountAtTarget ==
  [][ /\ \A f \in CountFrames :
           (SquatFrameStep(f) /\ targetReps > 0 /\ repCount >= targetReps) =>
             repCount' = repCount
      /\ \A f \in PressFrames :
           (PressFrame(f) /\ targetReps > 0 /\ repCount >= targetReps) =>
             repCount' = repCount ]_vars

\* the squat counter has been stopped at the target: a frame found the
\* count at the target and put the stage back to neutral
C3_Witness ==
  /\ page = "squat" /\ targetReps > 0 /\ repCount = targetReps
  /\ repStage = "neutral" /\ poseStatus = "not_visible" /\ kneeAngleHistory # << >>

\* C4: a frame whose resulting pose status is not "ready" leaves the rep
\* count unchanged, and the rep stage after it is its previous value or
\* neutral.
C4_NotReadyFrame ==
  [][ \A f \in CountFrames :
        (Frame(f) /\ poseStatus' # "ready") =>
          /\ repCount' = repCount
          /\ repStage' \in {repStage, "neutral"} ]_vars

\* a frame has been held back as unstable after a rep was counted
C4_Witness == poseStatus = "unstable" /\ repCount = 1 /\ repStage = "neutral"

\* C5: the transport mode switches to fallback exactly when the third
\* consecutive failed connection ends: not after fewer than three
\* connections that ended in a close event without an open in between, and
\* not later.
C5_FallbackAtThirdFailure ==
  mounted => (useRestFallback <=> failedConns >= WsFailureLimit)

\* C6: while the transport mode is fallback no connection attempt is made,
\* no reconnect timer is pending, and the mode returns to socket only by
\* the manual reset.
C6_FallbackState ==
  useRestFallback =>
    /\ ~ reconnectTimeout.on
    /\ \A s \in DOMAIN sockets : sockets[s].st # "connecting"

C6_FallbackStep ==
  useRestFallback =>
    /\ nextSock' # nextSock => Retry
    /\ ~ useRestFallback' => Retry
    /\ reconnectTimeout' = reconnectTimeout

C6_FallbackLasts == [] C6_FallbackState /\ [][C6_FallbackStep]_vars

\* fallback mode was entered by the failure counter after a reconnect
C6_Witness ==
  /\ mounted /\ useRestFallback /\ wsFailureCount >= WsFailureLimit
  /\ nextSock >= 2

\* C7: at every instant at most one fallback HTTP request is outstanding;
\* an eligible sample that arrives while a request is outstanding starts no
\* request, then or later: a request starts only in the frame that carries
\* its sample, and only when none is outstanding.
C7_OneOutstanding == restPending <= 1

C7_RequestStart ==
  /\ restPending' > restPending =>
        /\ ~ restInFlight
        /\ restPending' = restPending + 1
        /\ \E f \in SendFrames : Frame(f) /\ SendKind(f) = "rest"
  /\ \A f \in SendFrames :
        (Frame(f) /\ SendKind(f) = "rest" /\ restInFlight) =>
          (restPending' = restPending /\ txLog' = txLog)

C7_SingleFlight == [] C7_OneOutstanding /\ [][C7_RequestStart]_vars

\* a sample passed the gate while a request was outstanding and was dropped
C7_Witness ==
  /\ restInFlight /\ restPending = 1 /\ txLog.via = "rest"
  /\ sinceSend = 0 /\ sinceTx = sendIntervalMs

\* C9: any two samples transmitted to the remote predictor, over the socket
\* or as a fallback request, are at least 100 ms apart.
C9_SendInterval == txLog.n >= 2 => txLog.gap >= sendIntervalMs

\* a second sample has been transmitted
C9_Witness == txLog.n = 2 /\ sinceTx = 0

\* C10: a sample is transmitted only if the largest change of the vertical
\* coordinate over the 12 transport landmarks, against the last-sent
\* baseline, is at least 0.003; a sample below that is not transmitted and
\* leaves the baseline and the last-send time unchanged.
C10_SentMoved == txLog.n >= 1 => txLog.delta >= motionThreshold

C10_StillSample ==
  \A f \in SendFrames :
    ( /\ Frame(f)
      /\ formatLandmarks(f)
      /\ lastSentKeypoints # << >>
      /\ MaxDeltaY(filteredLandmarks(f), lastSentKeypoints, 1) < motionThreshold )
    => /\ lastSentKeypoints' = lastSentKeypoints
       /\ sinceSend' = sinceSend
       /\ txLog' = txLog

C10_MotionGate == [] C10_SentMoved /\ [][C10_StillSample]_vars

\* a sample that moved by exactly the threshold has been transmitted
C10_Witness == txLog.n >= 1 /\ txLog.delta = motionThreshold /\ sinceTx = 0

\* C8: in each session the host bridge handler is invoked with a
\* terminal-outcome payload at most once, however target completion, the
\* confirmation, Continue later, renders and teardown interleave.
C8_AtMostOnce == Len(hostLog) <= 1

\* C11: after the baseline has been reset (initially and on exercise
\* change), the first structurally valid sample that passes the interval
\* gate is stored as the baseline and is not transmitted, in either
\* transport mode; a frame that finds no baseline transmits nothing.
C11_Step ==
  lastSentKeypoints = << >> =>
    /\ txLog' = txLog
    /\ restPending' = restPending
    /\ \A f \in SendFrames :
         (isValidLandmarks(f) /\ IntervalElapsed(sinceSend) /\ Frame(f)) =>
           lastSentKeypoints' = filteredLandmarks(f)

C11_FirstSampleIsBaseline == [][C11_Step]_vars

\* in fallback mode, after an exercise change, a baseline is stored and
\* nothing has been transmitted
C11_Witness ==
  /\ seenRestFallback /\ exercise = "lunge"
  /\ lastSentKeypoints # << >> /\ txLog.n = 0

\* the log holds exactly the given knee angles, each on a frame found ready
ReadyRun(angles) ==
  /\ frameLog.on
  /\ Len(frameLog.seq) = Len(angles)
  /\ \A i \in 1..Len(angles) :
       /\ frameLog.seq[i].angle2 = 2 * angles[i]
       /\ frameLog.seq[i].status = "ready"

\* C12: from the neutral stage and a count of zero, with every frame found
\* ready, the knee angles 170, 95, 98, 165 end with a rep count of 1, and the
\* knee angles 170, 95, 98 end with a rep count of 0 and the stage down.
C12_WorkedSquat ==
  /\ ReadyRun(<< 170, 95, 98, 165 >>) => repCount = 1
  /\ ReadyRun(<< 170, 95, 98 >>) => (repCount = 0 /\ repStage = "down")

C12_Witness == ReadyRun(<< 170, 95, 98, 165 >>) /\ repCount = 1 /\ repStage = "up"

\* the stage and the count a logged frame found
StageBefore(i) == IF i = 1 THEN "neutral" ELSE frameLog.seq[i - 1].stage
CountBefore(i) == IF i = 1 THEN 0 ELSE frameLog.seq[i - 1].count

\* the logged frame i carried landmarks and failed the visibility check
VisibilityFailed(i) == frameLog.seq[i].detected /\ ~ frameLog.seq[i].inView

\* C13: a frame that fails the visibility check while the stage is down gets
\* the status not_visible and leaves the stage neutral; a later frame above
\* the up threshold increments the rep count only if a frame below the down
\* threshold has passed the visibility check after the failure.
C13_LostCommitment ==
  \A i \in 1..Len(frameLog.seq) :
    (VisibilityFailed(i) /\ StageBefore(i) = "down") =>
      /\ frameLog.seq[i].status = "not_visible"
      /\ frameLog.seq[i].stage = "neutral"
      /\ frameLog.seq[i].count = CountBefore(i)
      /\ \A j \in (i + 1)..Len(frameLog.seq) :
           ( /\ frameLog.seq[j].angle2 > 2 * upThreshold
             /\ frameLog.seq[j].count > CountBefore(j) ) =>
             \E k \in (i + 1)..(j - 1) :
               /\ frameLog.seq[k].angle2 < 2 * downThreshold
               /\ frameLog.seq[k].inView

\* the view was lost in the down stage, and a later frame at 165 degrees was
\* found ready and counted nothing
C13_Witness ==
  /\ Len(frameLog.seq) = 4
  /\ frameLog.seq[1].stage = "down"
  /\ VisibilityFailed(2)
  /\ frameLog.seq[4].status = "ready"
  /\ frameLog.seq[4].angle2 = 2 * 165
  /\ repCount = 0

\* C14: after three socket closes in a row with no open in between the
\* transport mode is fallback; when the manual reset is then invoked and the
\* connection it starts opens, the transport mode is socket and the failure
\* counter is 0.
C14_ThreeCloses == (mounted /\ failedConns >= WsFailureLimit) => useRestFallback

C14_OpenStep ==
  \A s \in SocketIds :
    (mounted /\ SockOpen(s)) =>
      /\ ~ useRestFallback'
      /\ wsFailureCount' = 0
      /\ isSocketOpen'

C14_FallbackAndBack == [] C14_ThreeCloses /\ [][C14_OpenStep]_vars

\* three connections of the first effect run were closed, and the connection
\* that the manual reset started (the fourth socket, first of its own effect
\* run) is open
C14_Witness ==
  /\ mounted /\ nextSock = 4
  /\ \A s \in 1..3 : sockets[s].st = "closed" /\ sockets[s].run = 1
  /\ sockets[4].st = "open" /\ sockets[4].run = 4
  /\ ~ useRestFallback /\ wsFailureCount = 0

\* C15: after the session view is torn down no reconnect timer is pending or
\* scheduled, no new socket is opened, and no socket event or fallback
\* response changes the rep count, the label and confidence, the latency,
\* the failure counter or the transport mode.
C15_NoTimer == ~ mounted => ~ reconnectTimeout.on

C15_Quiet ==
  ~ mounted =>
    /\ nextSock' = nextSock
    /\ repCount' = repCount
    /\ prediction' = prediction
    /\ latencyMs' = latencyMs
    /\ wsFailureCount' = wsFailureCount
    /\ useRestFallback' = useRestFallback

C15_TornDown == [] C15_NoTimer /\ [][C15_Quiet]_vars

\* C16: a result for a sample that was sent before an exercise change and
\* that arrives after it does not modify the rep count, the label or the
\* confidence of the new session.
C16_StaleResponse ==
  ( /\ restPending' < restPending
    /\ txLog.via = "rest"
    /\ txLog.session # exercise ) =>
    /\ repCount' = repCount
    /\ prediction' = prediction

C16_StaleResultIgnored == [][C16_StaleResponse]_vars

\* the rep number a result carries: rep_count when it is a finite number,
\* otherwise reps when that is one
C17_Carried(d) == IF d.rep_count # NoValue THEN d.rep_count ELSE d.reps

\* C17: a result whose rep number (rep_count if it is a finite number,
\* otherwise reps) is finite and greater than zero sets the rep count to
\* exactly that number; any other result leaves the rep count unchanged.
C17_MessageStep ==
  \A d \in CountResults :
    (\E s \in SocketIds : SockMessage(s, TRUE, d)) =>
      IF C17_Carried(d) # NoValue /\ Val(C17_Carried(d)) > 0
      THEN repCount' = Val(C17_Carried(d))
      ELSE repCount' = repCount

C17_RepCountFromResult == [][C17_MessageStep]_vars

\* a result has put the rep count above the target, where no frame counts
C17_Witness == page = "squat" /\ targetReps = 2 /\ repCount = 3

\* the label of a result is a string that is not empty once trimmed; its
\* confidence is a finite number that is not negative
C18_HasLabel(d) == d.exercise # NoValue /\ Trim(Val(d.exercise)) # ""
C18_HasConfidence(d) == d.confidence # NoValue /\ Val(d.confidence) >= 0

\* C18: a result changes the displayed label and confidence only when its
\* label is a non-empty string and its confidence is a finite number that is
\* not negative; any other result leaves both as they were displayed.
C18_MessageStep ==
  \A d \in LabelResults :
    ( /\ \E s \in SocketIds : SockMessage(s, TRUE, d)
      /\ ~ (C18_HasLabel(d) /\ C18_HasConfidence(d)) ) =>
      prediction' = prediction

C18_LabelRetained == [][C18_MessageStep]_vars

\* C19: the manual reset, in any transport state, leaves the failure counter
\* at 0, no reconnect timer pending, the transport mode socket, and every
\* socket that was open or connecting closed; the close event of a socket
\* that the reset closed is not counted as a failure.
C19_ResetStep ==
  Retry =>
    /\ wsFailureCount' = 0
    /\ ~ reconnectTimeout'.on
    /\ ~ useRestFallback'
    /\ \A s \in SocketIds :
         sockets[s].st \in {"connecting", "open"} =>
           sockets'[s].st \notin {"connecting", "open"}

C19_CloseStep ==
  \A s \in SocketIds :
    (sockets[s].reset /\ SockClose(s)) => wsFailureCount' = wsFailureCount

C19_ManualReset == [][C19_ResetStep /\ C19_CloseStep]_vars

\* C20: every change of the exercise identifier leaves the rep count 0, the
\* rep stage neutral, the stability window empty, the last-sent baseline
\* cleared and the terminal-outcome-sent flag cleared, so that the new
\* session can still deliver its outcome to the host.
C20_ChangeStep ==
  \A e \in Exercises :
    (ChangeExercise(e) \/ CoachChangeExercise(e)) =>
      /\ repCount' = 0
      /\ repStage' = "neutral"
      /\ kneeAngleHistory' = << >>
      /\ lastSentKeypoints' = << >>
      /\ ~ completionSent'

C20_ExerciseChangeResets == [][C20_ChangeStep]_vars

\* the statuses by which the two versions of the bridge name the deferred
\* outcome
DeferredStatuses == {"inprogress", "tobecontinued"}

\* the bridge is present and ready and nothing has been reported yet
C21_BridgeFresh ==
  flutterReady /\ flutterHandler /\ ~ sentOnce /\ hostLog = << >> /\ calls = << >>

\* C21: when the user presses Continue later before any other outcome has
\* been reported and the host bridge is present and ready, the host handler
\* receives a notification with the deferred status and repsDone equal to
\* the rep count (coach and press sessions).
C21_DeferStep ==
  ( /\ C21_BridgeFresh
    /\ \/ PressContinueLater
       \/ CoachImportDone /\ Head(pendingCompletions) = "inprogress" ) =>
    /\ Len(hostLog') >= 1
    /\ hostLog'[1].payload.exerciseStatus \in DeferredStatuses
    /\ hostLog'[1].payload.repsDone = repCount

C21_DeferredDelivered == [][C21_DeferStep]_vars

\* the host handler has been invoked with the outcome done and these reps
DoneDelivered(log, reps) ==
  \E i \in DOMAIN log :
    log[i].payload.exerciseStatus = "done" /\ log[i].payload.repsDone = reps

\* C22: when the rep count reaches the target in a press session and the
\* host bridge is present and ready, the host handler receives a notification
\* with the status done and repsDone equal to the rep count (the done effect
\* calls the bridge in the render that follows the frame), and no other
\* outcome is delivered for the session.
C22_ReachStep ==
  \A f \in PressFrames :
    ( /\ flutterReady /\ flutterHandler /\ ~ sentOnce
      /\ targetReps > 0 /\ repCount < targetReps
      /\ PressFrame(f)
      /\ repCount' >= targetReps ) =>
      DoneDelivered(hostLog', repCount')

C22_OnlyDone ==
  (page = "press" /\ targetReps > 0 /\ repCount >= targetReps) =>
    \A i \in DOMAIN hostLog : hostLog[i].payload.exerciseStatus = "done"

C22_DoneDelivered == [] C22_OnlyDone /\ [][C22_ReachStep]_vars

\* the user has reported an outcome (done or deferred) in this session
ExplicitOutcome ==
  completionSent \/ bridgeIssued \cap ({"done"} \cup DeferredStatuses) # {}

\* the session view is torn down with no rep counted and no outcome reported
TornDownIdle == mounted /\ ~ mounted' /\ repCount = 0 /\ ~ ExplicitOutcome

\* C23: the outcome no_performance is issued to the host bridge when, and
\* only when, the session view is torn down with a rep count of 0 and no
\* explicit outcome reported; it is never issued while the view is mounted.
C23_NotWhileMounted == mounted => "no_performance" \notin bridgeIssued

C23_TeardownStep ==
  /\ TornDownIdle => "no_performance" \in bridgeIssued'
  /\ ("no_performance" \in bridgeIssued' /\ "no_performance" \notin bridgeIssued)
       => TornDownIdle

C23_NoPerformance == [] C23_NotWhileMounted /\ [][C23_TeardownStep]_vars

\* C24: once the rep count has reached the target in a session (the
\* completion dialog has been raised by it), no later frame of the session
\* increments the rep count, also after a remote result has been applied.
C24_TerminalStep ==
  (targetReps > 0 /\ showCompletion /\ repCount' > repCount) =>
    /\ ~ \E f \in CountFrames : SquatFrameStep(f)
    /\ ~ \E f \in PressFrames : PressFrame(f)

C24_TerminalAtTarget == [][C24_TerminalStep]_vars

\* C25: every frame processed while the target is set and the rep count is
\* at or above it leaves the rep stage neutral, whatever its angle and
\* landmarks (squat and press counters).
C25_HeldStep ==
  (targetReps > 0 /\ repCount >= targetReps) =>
    /\ \A f \in CountFrames : SquatFrameStep(f) => repStage' = "neutral"
    /\ \A f \in PressFrames : PressFrame(f) => repStage' = "neutral"

C25_StageHeldNeutral == [][C25_HeldStep]_vars

\* the reply on which the call i settles when the handler it awaits replies
\* r: with part_001, the first reply unless that was null
C26_LastReply(i, r) ==
  IF bridge = "part_001" /\ calls[i].step = 2
  THEN Coalesce(calls[i].primary, IF r = "reject" THEN "null" ELSE r)
  ELSE r

\* C26: sendExerciseCompletedToFlutter never rejects; when the host bridge
\* is absent or not ready, the payload fails validation, the handler throws
\* or the response is no acknowledgement, the call resolves to null and does
\* not set the already-sent flag.
C26_NeverRejects == bridgeReturn \in {"none", "null", "ack"}

C26_FailureStep ==
  /\ (~ flutterHandler \/ ~ flutterReady) =>
       /\ hostLog' = hostLog
       /\ sentOnce' = sentOnce
       /\ bridgeReturn' \in {bridgeReturn, "null"}
  /\ (bridgeIssued' # bridgeIssued /\ hostLog' = hostLog) =>
       (bridgeReturn' = "null" /\ sentOnce' = sentOnce)
  /\ \A i \in DOMAIN calls, r \in HostReplies :
       ( /\ HostReply(i, r)
         /\ Len(calls') < Len(calls)
         /\ C26_LastReply(i, r) # "ack" ) =>
         (bridgeReturn' = "null" /\ sentOnce' = sentOnce)

C27_NoSilentDefault ==
  config.env = NoValue =>
    /\ config.base = NoValue
    /\ ~ mounted
    /\ nextSock = 0
    /\ restPending = 0 /\ txLog.n = 0
    /\ repCount = 0 /\ lastSentKeypoints = << >>

\* C28: for three landmarks with finite coordinates calculateAngle returns a
\* value in [0, 180], and exactly 180 when the vertex coincides with either
\* endpoint.
C28_AngleRange ==
  angleCalc.done =>
    /\ angleCalc.angle.k = "deg"
    /\ 0 <= angleCalc.angle.lo /\ angleCalc.angle.hi <= 180
    /\ (angleCalc.b = angleCalc.a \/ angleCalc.b = angleCalc.c) =>
         (angleCalc.angle.lo = 180 /\ angleCalc.angle.hi = 180)

\* C29: after any frame whose pose status is not ready (a frame with no
\* detection and a frame found unstable included), the rep stage is neutral
\* and the stability window is empty.
C29_NotReadyStep ==
  (page = "squat" /\ poseStatus' # "ready") =>
    \A f \in CountFrames :
      Frame(f) => (repStage' = "neutral" /\ kneeAngleHistory' = << >>)

C29_NotReadyResets == [][C29_NotReadyStep]_vars

\* the part of C29 that the counter honours: a frame that was detected and
\* is not ready leaves the rep stage neutral
C29_DetectedStep ==
  (page = "squat" /\ poseStatus' # "ready") =>
    \A f \in CountFrames \ {NoDetection} : Frame(f) => repStage' = "neutral"

C29_DetectedNotReady == [][C29_DetectedStep]_vars

\* C30: a frame with no detection, or with a joint required for the tracked
\* angle missing, leaves the rep stage, the rep count and the stability
\* window exactly as they were before the frame (squat and press counters).
C30_SkipStep ==
  /\ \A f \in {NoDetection, NoAnklesFrame} :
       SquatFrameStep(f) => UNCHANGED << repStage, repCount, kneeAngleHistory >>
  /\ \A f \in {PressNoDetection, NoWristsFrame} :
       PressFrame(f) => UNCHANGED << repStage, repCount, kneeAngleHistory >>

C30_FrameSkipped == [][C30_SkipStep]_vars

\* the part of C30 that the counters honour: such a frame leaves the rep
\* count alone, and a squat frame with no detection below the target leaves
\* the stage and the window alone as well
C30_KeptStep ==
  /\ \A f \in {NoDetection, NoAnklesFrame} : SquatFrameStep(f) => UNCHANGED repCount
  /\ \A f \in {PressNoDetection, NoWristsFrame} : PressFrame(f) => UNCHANGED repCount
  /\ (targetReps = 0 \/ repCount < targetReps) =>
       (SquatFrameStep(NoDetection) => UNCHANGED << repStage, kneeAngleHistory >>)

C30_CountKept == [][C30_KeptStep]_vars

\* C31: the posture predicate matters only on frames where the rep stage is
\* neutral and the knee angle exceeds the up threshold; when it fails there,
\* the pose status is invalid_posture, the stability window is emptied, the
\* rep stage is neutral and the rep count is unchanged.  On frames where the
\* rep stage is down or up, posture never blocks a transition.
C31_Standing(f) ==
  /\ canCountReps(targetReps, repCount)
  /\ isPoseFullyVisible(f)
  /\ repStage = "neutral"
  /\ f.leftAngle + f.rightAngle > 2 * upThreshold

C31_PostureStep ==
  (page # "press" /\ (poseStatus' = "invalid_posture" \/ repStage = "neutral")) =>
  \A f \in CountFrames :
    SquatFrameStep(f) =>
      /\ (poseStatus' = "invalid_posture") <=> (C31_Standing(f) /\ ~ isPostureValid(f))
      /\ (poseStatus' = "invalid_posture") =>
           /\ kneeAngleHistory' = << >>
           /\ repStage' = "neutral"
           /\ repCount' = repCount

C31_MovingStep ==
  (page # "press" /\ repStage # "neutral" /\ canCountReps(targetReps, repCount)) =>
    \A a \in { << 95, 95 >>, << 164, 168 >> } :
      SquatFrameStep(TiltedFrame(a)) =>
        /\ poseStatus' = "ready"
        /\ kneeAngleHistory' =
             PushHistory(kneeAngleHistory, a[1] + a[2], STABILITY_FRAME_COUNT)
        /\ (a[1] + a[2] < 2 * downThreshold) => (repStage' = "down" /\ repCount' = repCount)
        /\ (a[1] + a[2] > 2 * upThreshold /\ repStage = "down") =>
             (repStage' = "up" /\ repCount' = repCount + 1)
        /\ (a[1] + a[2] > 2 * upThreshold /\ repStage = "up") =>
             (repStage' = "up" /\ repCount' = repCount)

C31_PostureGate == [][C31_PostureStep /\ C31_MovingStep]_vars

\* a standing frame with tilted shoulders has been held back after a rep was
\* counted and the user had left the view
C31_Witness ==
  /\ page = "squat" /\ poseStatus = "invalid_posture" /\ repCount = 1
  /\ repStage = "neutral" /\ kneeAngleHistory = << >>

\* a rep has been counted by a frame with tilted shoulders: the window ends
\* with the angle of a descent followed by the angle of a standing user
C31_Counted ==
  /\ page = "squat" /\ poseStatus = "ready" /\ repStage = "up" /\ repCount = 1
  /\ Len(kneeAngleHistory) >= 2
  /\ kneeAngleHistory[Len(kneeAngleHistory)] = 164 + 168
  /\ kneeAngleHistory[Len(kneeAngleHistory) - 1] = 95 + 95

\* the stability filter of WebcamPose.tsx
NextStable == \E f \in StableFrames : Frame(f)

SpecStable == Init /\ [][NextStable]_vars

\* C32: on a frame where the rep stage is neutral, the knee angle exceeds the
\* up threshold and the posture is valid, if the window with the angle of
\* the frame appended (capacity 5) has fewer than 2 samples or an adjacent
\* difference of 6 degrees or more, the pose status is unstable, the rep
\* stage is neutral, the rep count is unchanged and the window keeps its
\* contents, the appended angle included.
C32_Window(f) ==
  PushHistory(kneeAngleHistory, f.leftAngle + f.rightAngle, STABILITY_FRAME_COUNT)

C32_Shaky(w) == Len(w) < 2 \/ MaxAdjacentDelta(w, 2) >= 2 * 6

C32_UnstableStep ==
  (repStage = "neutral" /\ canCountReps(targetReps, repCount)) =>
    \A f \in StableFrames :
      ( /\ Frame(f)
        /\ isPoseFullyVisible(f) /\ isPostureValid(f)
        /\ f.leftAngle + f.rightAngle > 2 * upThreshold
        /\ C32_Shaky(C32_Window(f)) ) =>
          /\ poseStatus' = "unstable"
          /\ repStage' = "neutral"
          /\ repCount' = repCount
          /\ kneeAngleHistory' = C32_Window(f)
          /\ Len(kneeAngleHistory') <= 5

C32_UnstableKeepsWindow == [][C32_UnstableStep]_vars

\* a frame has been found unstable on a full window whose last two angles,
\* 165 and 171 degrees, differ by exactly 6 degrees and are the only shaky
\* pair
C32_Witness ==
  /\ poseStatus = "unstable" /\ repStage = "neutral"
  /\ kneeAngleHistory = << 340, 340, 340, 330, 342 >>

\* C33: an eligible sample is transmitted through the transport mode that is
\* current when the frame is processed: as a fallback request when the mode
\* is fallback and no request is outstanding, and over the socket when the
\* mode is socket and the socket is open.
C33_Eligible(f) ==
  /\ mounted /\ page = "squat"
  /\ f.len # 0
  /\ sinceSend >= sendIntervalMs
  /\ isValidLandmarks(f)
  /\ lastSentKeypoints # << >>
  /\ hasSufficientMotion(filteredLandmarks(f), lastSentKeypoints)

\* the frame f is handled and its sample goes out through `via`
C33_Sent(f, via) == Frame(f) /\ sinceTx' = 0 /\ txLog'.via = via

C33_CurrentMode ==
  \A f \in SendFrames :
    C33_Eligible(f) =>
      /\ (useRestFallback /\ ~ restInFlight) => ENABLED C33_Sent(f, "rest")
      /\ ( /\ ~ useRestFallback /\ isSocketOpen
           /\ socketRef # 0 /\ sockets[socketRef].st = "open" ) =>
           ENABLED C33_Sent(f, "socket")

\* the part of C33 that holds: an eligible sample goes out through the mode
\* that the onResults closure captured when the pose effect last ran
C33_ClosureStep ==
  (sinceSend >= sendIntervalMs /\ lastSentKeypoints # << >>) =>
    \A f \in SendFrames :
      (Frame(f) /\ C33_Eligible(f)) =>
        /\ (seenRestFallback /\ ~ restInFlight) =>
             (sinceTx' = 0 /\ txLog'.via = "rest" /\ restPending' = restPending + 1)
        /\ ( /\ ~ seenRestFallback /\ seenSocketOpen
             /\ socketRef # 0 /\ sockets[socketRef].st = "open" ) =>
             (sinceTx' = 0 /\ txLog'.via = "socket")

C33_CapturedMode == [][C33_ClosureStep]_vars

\* C34: the last-sent baseline and the last-send time are updated only when a
\* sample is actually transmitted: a sample dropped because a fallback
\* request is outstanding, or not sent because the socket is not open,
\* leaves both unchanged (the first sample, which becomes the initial
\* baseline, apart).
C34_BaselineStep ==
  (lastSentKeypoints # << >>
     /\ (lastSentKeypoints' # lastSentKeypoints \/ sinceSend' < sinceSend)) =>
    \A f \in SendFrames :
      Frame(f) => (sinceTx' = 0 /\ txLog'.via \in {"rest", "socket"})

C34_BaselineIsSent == [][C34_BaselineStep]_vars

\* the part of C34 that holds: a sample that meets a socket still connecting
\* leaves the baseline and the last-send time unchanged
C34_ConnectingStep ==
  (socketRef # 0 /\ ~ seenRestFallback) =>
    ((sockets[socketRef].st = "connecting" /\ lastSentKeypoints # << >>) =>
       \A f \in SendFrames :
         Frame(f) => UNCHANGED << lastSentKeypoints, sinceSend >>)

C34_ConnectingKeeps == [][C34_ConnectingStep]_vars

\* C35: the delay of the n-th consecutive reconnect since the last
\* successful open is min(1000 * 2^(n-1), 10000) ms: it starts at 1 s,
\* doubles after each reconnect, never exceeds 10 s and returns to 1 s after
\* a successful open.
C35_Delay(n) == Min(ReconnectFloorMs * 2 ^ (n - 1), ReconnectCeilingMs)

C35_BackoffDelay ==
  reconnectTimeout.on => reconnectTimeout.delay = C35_Delay(reconnects + 1)

\* the delay of a pending reconnect is that of its run of the socket effect,
\* a power-of-two multiple of the floor capped at the ceiling; a run that has
\* not started is at the floor; the timer that fires doubles the delay of
\* its run up to the ceiling, and an open sets it to the floor
C35_Bounded ==
  /\ reconnectTimeout.on =>
       /\ reconnectTimeout.delay = reconnectDelayMs[reconnectTimeout.run]
       /\ \E n \in 1..(MaxSockets + 1) : reconnectTimeout.delay = C35_Delay(n)
  /\ \A r \in DOMAIN reconnectDelayMs :
       r > nextSock => reconnectDelayMs[r] = ReconnectFloorMs

C35_DoubleStep ==
  /\ Timer =>
       reconnectDelayMs'[reconnectTimeout.run] =
         Min(2 * reconnectTimeout.delay, ReconnectCeilingMs)
  /\ \A s \in SocketIds :
       SockOpen(s) => reconnectDelayMs'[sockets[s].run] = ReconnectFloorMs

C35_Doubling == [] C35_Bounded /\ [][C35_DoubleStep]_vars

\* a reconnect is pending with the delay at the ceiling, after the timer of
\* the run has fired four times
C35_Witness ==
  /\ reconnectTimeout.on /\ reconnectTimeout.delay = ReconnectCeilingMs
  /\ reconnects = 4

\* C36: in every reachable state at most one reconnect timer is pending, and
\* whenever a reconnect timer is pending the transport mode is socket and
\* the consecutive-failure counter is below 3.
C36_AtMostOne == timersPending <= 1

C36_PendingState ==
  timersPending > 0 => (~ useRestFallback /\ wsFailureCount < 3)

C36_OneTimer == C36_AtMostOne /\ C36_PendingState

\* a reconnect timer is pending after an earlier reconnect and with two
\* failures counted
C36_Witness ==
  /\ timersPending = 1 /\ reconnectTimeout.on
  /\ wsFailureCount = 2 /\ ~ useRestFallback /\ reconnects >= 1

\* C37: a fallback request that ends with a non-success status or with a
\* network exception leaves the label, the confidence, the rep count and the
\* latency unchanged; and however a fallback request ends (success,
\* non-success, exception, unparsable body) the in-flight marker is cleared,
\* so that a later eligible sample can start a new request.
C37_FailedStep ==
  \A o \in {"status", "error"}, d \in SendResults :
    RestDone(o, d) => UNCHANGED << prediction, repCount, latencyMs >>

C37_EndStep == restPending' < restPending => ~ restInFlight'

\* the marker is set only while a request is outstanding
C37_Marker == restInFlight => restPending > 0

\* with the marker clear, an eligible sample handled in fallback mode starts
\* a request
C37_RestartStep ==
  (seenRestFallback /\ ~ restInFlight /\ sinceSend >= sendIntervalMs) =>
    \A f \in SendFrames :
      (Frame(f) /\ C33_Eligible(f)) =>
        (restInFlight' /\ restPending' = restPending + 1 /\ txLog'.via = "rest")

C37_RequestEnds ==
  [] C37_Marker /\ [][C37_FailedStep /\ C37_EndStep /\ C37_RestartStep]_vars

\* a second request is outstanding after the first one ended without a
\* result that could be applied
C37_Witness ==
  /\ restPending = 1 /\ restInFlight /\ txLog.n = 2 /\ txLog.via = "rest"
  /\ prediction.exercise = "" /\ latencyMs = NoValue

\* the session under sustained failure: frames arrive and time passes while
\* every connection fails (an error event, a close event, or both), no
\* socket ever opens and nobody resets the transport
NextFailing ==
  \/ \E f \in SendFrames : Frame(f)
  \/ Tick
  \/ PropsChange
  \/ \E s \in SocketIds : SockError(s)
  \/ \E s \in SocketIds : SockClose(s)
  \/ Timer
  \/ \E o \in {"ok", "status", "error", "body"}, d \in SendResults : RestDone(o, d)

SpecFailing == Init /\ [][NextFailing]_vars

\* a failed connection gets its close event and a pending reconnect timer
\* fires
SpecFailingFair ==
  /\ SpecFailing
  /\ WF_vars(\E s \in SocketIds : SockClose(s))
  /\ WF_vars(Timer)

\* C38: under sustained failure, with the session mounted and no manual
\* reset, the transport reaches fallback mode after at most 3 connection
\* attempts, and from then on no socket exists and no reconnect timer is
\* pending.
C38_Attempts == nextSock <= 3

C38_Quiet ==
  useRestFallback =>
    /\ socketRef = 0
    /\ \A s \in SocketIds : ~ Live(sockets[s].st)
    /\ ~ reconnectTimeout.on /\ timersPending = 0

C38_Stays == useRestFallback => useRestFallback'

C38_BoundedFailure ==
  /\ [] (C38_Attempts /\ C38_Quiet)
  /\ [][C38_Stays]_vars
  /\ <>[] useRestFallback

\* fallback has been reached at the close of the third connection attempt
C38_Witness ==
  /\ useRestFallback /\ nextSock = 3 /\ wsFailureCount = 3
  /\ sockets[3].st = "closed" /\ socketRef = 0

\* C39: the socket-open flag used by the send step agrees with the current
\* socket: whenever the flag is true the current socket is open; and a close
\* event of a socket that is no longer the current one never clears the
\* flag, raises the failure counter or schedules a reconnect while a newer
\* socket is connecting or open.
\* (a socket whose error event has fired gets its close event in the same
\* task, so it is not told apart from an open one here)
C39_CurrentOpen == socketRef # 0 /\ sockets[socketRef].st \in {"open", "failed"}

\* the flag as the onResults closure reads it
C39_SendFlag == (mounted /\ seenSocketOpen) => C39_CurrentOpen

\* the flag as the component state holds it
C39_StateFlag == (mounted /\ isSocketOpen) => C39_CurrentOpen

C39_StaleClose ==
  (socketRef # 0 /\ sockets[socketRef].st \in {"connecting", "open"}) =>
    \A s \in SocketIds \ {socketRef} :
      SockClose(s) => UNCHANGED << isSocketOpen, wsFailureCount, reconnectTimeout >>

C39_FlagAgrees == [] C39_SendFlag /\ [][C39_StaleClose]_vars

C39_StaleCloseQuiet == [][C39_StaleClose]_vars

\* the transport without manual reset: sockets open, fail and close, results
\* arrive, timers fire and the component may unmount
NextAuto ==
  \/ \E s \in SocketIds : SockOpen(s)
  \/ \E s \in SocketIds, p \in BOOLEAN, d \in SendResults : SockMessage(s, p, d)
  \/ \E s \in SocketIds : SockError(s)
  \/ \E s \in SocketIds : SockClose(s)
  \/ Timer
  \/ Unmount

SpecAuto == Init /\ [][NextAuto]_vars

\* C40: in the absence of manual reset calls no reconnect is ever scheduled
\* with a delay greater than 2 s: the failure threshold of 3 moves the
\* transport to fallback before the backoff can double further.
C40_ShortDelay == reconnectTimeout.on => reconnectTimeout.delay <= 2000

C40_ScheduleStep ==
  (~ reconnectTimeout.on /\ reconnectTimeout'.on) =>
    /\ reconnectTimeout'.delay \in {1000, 2000}
    /\ reconnectTimeout'.delay = 2000 => wsFailureCount' = 2

C40_NoLongDelay == [] C40_ShortDelay /\ [][C40_ScheduleStep]_vars

\* a reconnect is pending with a delay of 2 s after an earlier open, one
\* reconnect and a second close
C40_Witness ==
  /\ reconnectTimeout.on /\ reconnectTimeout.delay = 2000
  /\ wsFailureCount = 2 /\ reconnects = 1 /\ nextSock >= 3
====
